---- MODULE Spec2Model ----
(***************************************************************************)
(* Model of the analysis pipeline of streamlit_app.py:                     *)
(*   fetch_company_data -> calculate_all_metrics -> make_prediction ->     *)
(*   render_explanation                                                    *)
(* Python numbers are modelled as tagged exact rationals: k is the Python  *)
(* type ("int", "float"), "nan" the float NaN, "none" the None object and  *)
(* "err" an exception raised while evaluating an expression.               *)
(***************************************************************************)
EXTENDS Integers, Sequences, FiniteSets, TLC

VARIABLES pc, data, today, metrics, X, pred, prob, risk, template, chips,
          explainer, shap_vals, narrative, cat_vals, notice, report,
          runs, prev,
          disk, downloads, fetched, asked, path, model, scaler, error,
          waiting

vars == <<pc, data, today, metrics, X, pred, prob, risk, template, chips,
          explainer, shap_vals, narrative, cat_vals, notice, report,
          runs, prev,
          disk, downloads, fetched, asked, path, model, scaler, error,
          waiting>>

\* what the driver section and the report export write
attribution == <<shap_vals, narrative, cat_vals, notice>>

\* the files of the deployment and what _get_model_file did with them
files == <<disk, downloads, fetched, asked, path>>

\* what load_model_resources returned or reported
artifacts == <<model, scaler, error>>

----------------------------------------------------------------------------
(* Python values *)

RECURSIVE GCD(_, _)
GCD(a, b) == IF b = 0 THEN a ELSE GCD(b, a % b)

AbsInt(n) == IF n < 0 THEN -n ELSE n

I(n) == [k |-> "int", n |-> n, d |-> 1]

F(n, d) ==
    LET s == IF d < 0 THEN -1 ELSE 1
        g == GCD(AbsInt(n), AbsInt(d))
    IN  [k |-> "float", n |-> (s * n) \div g, d |-> (s * d) \div g]

NaN  == [k |-> "nan",  n |-> 0, d |-> 1]
None == [k |-> "none", n |-> 0, d |-> 1]
Err  == [k |-> "err",  n |-> 0, d |-> 1]

\* float("inf") and float("-inf"): n is the sign
Inf(sign) == [k |-> "inf", n |-> sign, d |-> 1]

IsNumber(v) == v.k \in {"int", "float"}
IsFinite(v) == v.k \in {"int", "float", "sqrt"}
Raises(v)   == v.k = "err"

\* operands of an arithmetic operator or a comparison: None raises TypeError
BadOperand(v) == v.k \in {"none", "err"}

Lcm(x, y) == (x \div GCD(x, y)) * y

\* numerators over the common denominator
OnLcm(a, b) == a.n * (Lcm(a.d, b.d) \div a.d)

NumEq(v, n, d) == IsNumber(v) /\ v.n * d = n * v.d
NumLt(a, b)    == IsNumber(a) /\ IsNumber(b) /\ OnLcm(a, b) < OnLcm(b, a)
NumLe(a, b)    == IsNumber(a) /\ IsNumber(b) /\ OnLcm(a, b) <= OnLcm(b, a)
SameNum(a, b)  == IsNumber(a) /\ IsNumber(b) /\ OnLcm(a, b) = OnLcm(b, a)

Sign(n) == IF n > 0 THEN 1 ELSE IF n < 0 THEN -1 ELSE 0

\* IEEE results with an infinite operand; op is "+", "-", "*" or "/"
InfArith(a, b, op) ==
    LET sb == IF op = "-" THEN -Sign(b.n) ELSE Sign(b.n)
    IN  CASE op \in {"+", "-"} ->
               IF a.k = "inf" /\ b.k = "inf"
               THEN (IF a.n = sb THEN a ELSE NaN)
               ELSE IF a.k = "inf" THEN a ELSE Inf(sb)
          [] op = "*" ->
               IF a.n = 0 \/ b.n = 0 THEN NaN ELSE Inf(Sign(a.n) * Sign(b.n))
          [] op = "/" ->
               IF a.k = "inf" /\ b.k = "inf" THEN NaN
               ELSE IF b.k = "inf" THEN F(0, 1)
               ELSE Inf(a.n * (IF b.n < 0 THEN -1 ELSE 1))

ArithOp(a, b, n, d, forceFloat, op) ==
    IF BadOperand(a) \/ BadOperand(b) THEN Err
    ELSE IF a.k = "nan" \/ b.k = "nan" THEN NaN
    ELSE IF a.k = "inf" \/ b.k = "inf" THEN InfArith(a, b, op)
    ELSE IF a.k = "int" /\ b.k = "int" /\ ~forceFloat THEN I(n \div d)
    ELSE F(n, d)

PyAdd(a, b) == ArithOp(a, b, OnLcm(a, b) + OnLcm(b, a), Lcm(a.d, b.d), FALSE, "+")
PySub(a, b) == ArithOp(a, b, OnLcm(a, b) - OnLcm(b, a), Lcm(a.d, b.d), FALSE, "-")
PyMul(a, b) == ArithOp(a, b, a.n * b.n, a.d * b.d, FALSE, "*")

\* true division of Python floats: ZeroDivisionError on a zero divisor
PyDiv(a, b) ==
    IF (IsNumber(a) \/ a.k = "inf") /\ IsNumber(b) /\ b.n = 0 THEN Err
    ELSE ArithOp(a, b, a.n * b.d, a.d * b.n, TRUE, "/")

\* division of numpy floats: x / 0 is inf or -inf, 0 / 0 is NaN
NpDiv(a, b) ==
    IF IsNumber(a) /\ IsNumber(b) /\ b.n = 0
    THEN (IF a.n = 0 THEN NaN ELSE Inf(Sign(a.n)))
    ELSE PyDiv(a, b)

PyAbs(a) == IF IsNumber(a) \/ a.k = "inf" THEN [a EXCEPT !.n = AbsInt(a.n)] ELSE
            IF a.k = "nan" THEN NaN ELSE Err

\* float(x)
PyFloat(a) == IF IsNumber(a) THEN F(a.n, a.d) ELSE
              IF a.k \in {"sqrt", "inf"} THEN a ELSE
              IF a.k = "nan" THEN NaN ELSE Err

\* bool(x): zero and None are falsy, NaN is truthy
Truthy(a) == IF IsNumber(a) THEN a.n # 0 ELSE a.k \in {"nan", "inf"}

\* a or b
PyOr(a, b) == IF Raises(a) THEN Err ELSE IF Truthy(a) THEN a ELSE b

\* (a if c > 0 else b): the comparison raises on None, is False on NaN
IfPos(c, a, b) ==
    IF BadOperand(c) THEN Err
    ELSE IF (IsNumber(c) \/ c.k = "inf") /\ c.n > 0 THEN a ELSE b

\* (a if c else b)
IfTruthy(c, a, b) == IF Raises(c) THEN Err ELSE IF Truthy(c) THEN a ELSE b

----------------------------------------------------------------------------
(* The canonical feature list *)

\* mutant of SELECTED_FEATURES: the list without its last name
SELECTED_FEATURES_44 == <<
    "Market_Cap_USD", "Low", "Volume", "Daily_Return_%", "Price_Range_%",
    "ROA_%", "Equity_Ratio", "Asset_Turnover", "OCF_to_Debt", "Altman_Z_Score",
    "Death_Cross", "True_Range", "RSI_14", "US_10Y",
    "Oil_Volatility_20D", "Oil_Below_60", "Oil_Below_40", "Brent_Change_%",
    "VIX_Change_%", "Very_High_VIX", "Strong_Dollar",
    "SAR_USD", "KWD_USD", "QAR_USD_Volatility_20D", "BHD_USD_Volatility_20D",
    "Gulf_Crisis_End", "Is_Month_End",
    "Very_High_Governance_Risk", "Has_Controversy", "Poor_Governance",
    "Operating Cf_M", "Free Cf_M", "Debt_to_Equity", "ROE_%", "Net_Profit_Margin_%",
    "Volatility_20", "ROC_20",
    "Egypt_FX_Crisis", "EGP_USD_Change_%", "Pandemic_Recession",
    "Environment_Score", "Social_Score",
    "Young_Company", "Low_Institutional_Ownership" >>

SELECTED_FEATURES == <<
    "Market_Cap_USD", "Low", "Volume", "Daily_Return_%", "Price_Range_%",
    "ROA_%", "Equity_Ratio", "Asset_Turnover", "OCF_to_Debt", "Altman_Z_Score",
    "Death_Cross", "True_Range", "RSI_14", "US_10Y",
    "Oil_Volatility_20D", "Oil_Below_60", "Oil_Below_40", "Brent_Change_%",
    "VIX_Change_%", "Very_High_VIX", "Strong_Dollar",
    "SAR_USD", "KWD_USD", "QAR_USD_Volatility_20D", "BHD_USD_Volatility_20D",
    "Gulf_Crisis_End", "Is_Month_End",
    "Very_High_Governance_Risk", "Has_Controversy", "Poor_Governance",
    "Operating Cf_M", "Free Cf_M", "Debt_to_Equity", "ROE_%", "Net_Profit_Margin_%",
    "Volatility_20", "ROC_20",
    "Egypt_FX_Crisis", "EGP_USD_Change_%", "Pandemic_Recession",
    "Environment_Score", "Social_Score",
    "Young_Company", "Low_Institutional_Ownership",
    "Month_x" >>

----------------------------------------------------------------------------
(* The snapshot returned by fetch_company_data.                            *)
(* A statement is [cols, items]: cols the number of reporting periods,     *)
(* items the line items of the most recent period (key -> value).  info is *)
(* a mapping key -> value.  history is a sequence of rows                  *)
(* [Open, High, Low, Close, Volume] of positive prices.                    *)

EmptySeries == [key \in {} |-> NaN]

\* df.iloc[:,0] if len(df.columns) > 0 else pd.Series(dtype=float)
Latest(stmt) == IF stmt.cols > 0 THEN stmt.items ELSE EmptySeries

\* gv(series, key, default)
gv(series, key, default) ==
    IF key \in DOMAIN series
    THEN LET v == PyFloat(series[key]) IN IF Raises(v) THEN default ELSE v
    ELSE default

\* info.get(key, default)
InfoGet(info, key, default) ==
    IF key \in DOMAIN info THEN info[key] ELSE default

----------------------------------------------------------------------------
(* Market statistics of calculate_all_metrics *)

VolWindow == 20
RocLag    == 20
MaShort   == 50
MaLong    == 200
RsiWindow == 14

RECURSIVE SumBetween(_, _, _)
\* seq[lo] + ... + seq[hi], by halves
SumBetween(seq, lo, hi) ==
    IF lo > hi THEN F(0, 1)
    ELSE IF lo = hi THEN PyAdd(F(0, 1), seq[lo])
    ELSE LET mid == (lo + hi) \div 2
         IN  PyAdd(SumBetween(seq, lo, mid), SumBetween(seq, mid + 1, hi))

SumVals(seq) == SumBetween(seq, 1, Len(seq))

MeanVals(seq) == PyDiv(SumVals(seq), I(Len(seq)))

LastOf(seq) == seq[Len(seq)]

TailN(seq, k) == SubSeq(seq, Len(seq) - k + 1, Len(seq))

Column(hist, col) == [i \in 1..Len(hist) |-> F(hist[i][col], 1)]

\* hist["Close"].pct_change().dropna()
Rets(hist) ==
    LET c   == Column(hist, "Close")
        chg == [i \in 1..(Len(hist) - 1) |-> NpDiv(PySub(c[i + 1], c[i]), c[i])]
    IN  SelectSeq(chg, LAMBDA v : v.k # "nan")

\* series.rolling(w).mean().iloc[-1]: NaN until w rows are available
RollingMeanLast(seq, w) ==
    IF Len(seq) < w THEN NaN ELSE MeanVals(TailN(seq, w))

\* rets.tail(20).std() * np.sqrt(252) * 100: the square root of an exact
\* rational, kept as its radicand (k = "sqrt") unless the radicand is 0
AnnualisedStd(seq) ==
    LET m   == MeanVals(seq)
        sq  == [i \in 1..Len(seq) |-> PyMul(PySub(seq[i], m), PySub(seq[i], m))]
        var == PyDiv(SumVals(sq), I(Len(seq) - 1))
        rad == PyMul(PyMul(PyMul(var, I(252)), I(100)), I(100))
    IN  IF ~IsNumber(rad) THEN NaN
        ELSE IF rad.n = 0 THEN F(0, 1)
        ELSE [k |-> "sqrt", n |-> rad.n, d |-> rad.d]

lat_ret(hist) ==
    LET rets == Rets(hist)
    IN  IF Len(rets) > 0 THEN PyFloat(PyMul(LastOf(rets), I(100))) ELSE I(0)

\* mutant of vol_20: the standard deviation of whatever returns there are
vol_20_short_window(hist) ==
    LET rets == Rets(hist)
    IN  IF Len(rets) >= 2
        THEN AnnualisedStd(IF Len(rets) >= VolWindow
                           THEN TailN(rets, VolWindow) ELSE rets)
        ELSE I(0)

vol_20(hist) ==
    LET rets == Rets(hist)
    IN  IF Len(rets) >= VolWindow THEN AnnualisedStd(TailN(rets, VolWindow)) ELSE I(0)

pr_pct(hist) ==
    IF Len(hist) > 0 /\ LastOf(hist).Open > 0
    THEN PyMul(PyDiv(PySub(F(LastOf(hist).High, 1), F(LastOf(hist).Low, 1)),
                     F(LastOf(hist).Open, 1)), I(100))
    ELSE F(0, 1)

MaxVal(a, b) == IF NumLt(a, b) THEN b ELSE a

tr(hist) ==
    IF Len(hist) > 1
    THEN LET h  == F(LastOf(hist).High, 1)
             l  == F(LastOf(hist).Low, 1)
             pc1 == F(hist[Len(hist) - 1].Close, 1)
         IN  PyFloat(MaxVal(PySub(h, l),
                     MaxVal(PyAbs(PySub(h, pc1)), PyAbs(PySub(l, pc1)))))
    ELSE F(0, 1)

\* mutant of dc: MA50 <= MA200
dc_non_strict(hist) ==
    LET ma50  == RollingMeanLast(Column(hist, "Close"), MaShort)
        ma200 == RollingMeanLast(Column(hist, "Close"), MaLong)
    IN  IF Len(hist) > 0 /\ ma50.k # "nan" /\ ma200.k # "nan" /\ NumLe(ma50, ma200)
        THEN I(1) ELSE I(0)

dc(hist) ==
    LET ma50  == RollingMeanLast(Column(hist, "Close"), MaShort)
        ma200 == RollingMeanLast(Column(hist, "Close"), MaLong)
    IN  IF Len(hist) > 0 /\ ma50.k # "nan" /\ ma200.k # "nan" /\ NumLt(ma50, ma200)
        THEN I(1) ELSE I(0)

rsi14(hist) ==
    LET c     == Column(hist, "Close")
        delta == [i \in 1..Len(hist) |-> IF i = 1 THEN NaN ELSE PySub(c[i], c[i - 1])]
        gain  == [i \in 1..Len(hist) |->
                    IF IsNumber(delta[i]) /\ delta[i].n > 0 THEN delta[i] ELSE F(0, 1)]
        loss  == [i \in 1..Len(hist) |->
                    IF IsNumber(delta[i]) /\ delta[i].n < 0
                    THEN PySub(F(0, 1), delta[i]) ELSE F(0, 1)]
        ag    == RollingMeanLast(gain, RsiWindow)
        al    == RollingMeanLast(loss, RsiWindow)
        alr   == IF IsNumber(al) /\ al.n = 0 THEN NaN ELSE al
        rs    == IF alr.k = "nan" \/ ag.k = "nan" THEN NaN ELSE PyDiv(ag, alr)
        rsi   == IF rs.k = "nan" THEN NaN
                 ELSE PySub(I(100), PyDiv(I(100), PyAdd(I(1), rs)))
    IN  IF Len(hist) > 0 /\ rsi.k # "nan" THEN PyFloat(rsi) ELSE I(50)

roc20(hist) ==
    IF Len(hist) > RocLag /\ hist[Len(hist) - RocLag].Close # 0
    THEN LET c0 == F(hist[Len(hist) - RocLag].Close, 1)
         IN  PyMul(PyDiv(PySub(F(LastOf(hist).Close, 1), c0), c0), I(100))
    ELSE F(0, 1)

----------------------------------------------------------------------------
(* Statement line items and ratios of calculate_all_metrics *)

lbs(d)  == Latest(d.balance_sheet)
lfin(d) == Latest(d.financials)
lcf(d)  == Latest(d.cash_flow)

assets(d)   == gv(lbs(d), "Total Assets", InfoGet(d.info, "totalAssets", I(0)))
equity(d)   == gv(lbs(d), "Total Stockholder Equity",
                  InfoGet(d.info, "totalStockholderEquity", I(0)))
curr_a(d)   == gv(lbs(d), "Current Assets", I(0))
curr_l(d)   == gv(lbs(d), "Current Liabilities", I(0))
retained(d) == gv(lbs(d), "Retained Earnings", I(0))
debt(d)     == PyOr(gv(lbs(d), "Total Debt", I(0)),
                    PyAdd(gv(lbs(d), "Long Term Debt", I(0)),
                          gv(lbs(d), "Short Long Term Debt", I(0))))
net_inc(d)  == gv(lfin(d), "Net Income", I(0))
revenue(d)  == gv(lfin(d), "Total Revenue", I(0))
ebit(d)     == gv(lfin(d), "EBIT", I(0))
ocf(d)      == gv(lcf(d), "Total Cash From Operating Activities", I(0))
capex(d)    == gv(lcf(d), "Capital Expenditures", I(0))
\* mutant of fcf: a reported free cash flow of 0 is kept
fcf_keeps_zero(d) ==
    IF "Free Cash Flow" \in DOMAIN lcf(d)
    THEN gv(lcf(d), "Free Cash Flow", I(0))
    ELSE IfTruthy(ocf(d), PySub(ocf(d), PyAbs(capex(d))), I(0))

fcf(d)      == PyOr(gv(lcf(d), "Free Cash Flow", I(0)),
                    IfTruthy(ocf(d), PySub(ocf(d), PyAbs(capex(d))), I(0)))

mkt_cap(d)  == PyOr(InfoGet(d.info, "marketCap", I(0)), I(0))

\* mutant of eq_r: the guard tests assets != 0 instead of assets > 0
eq_r_nonzero_guard(d) ==
    IF BadOperand(assets(d)) THEN Err
    ELSE IF IsNumber(assets(d)) /\ assets(d).n # 0
         THEN PyDiv(equity(d), assets(d)) ELSE I(0)

\* mutant of roe: a fraction instead of a percentage
roe_fraction(d) == IfPos(equity(d), PyDiv(net_inc(d), equity(d)), I(0))

eq_r(d) == IfPos(assets(d),  PyDiv(equity(d), assets(d)), I(0))
at(d)   == IfPos(assets(d),  PyDiv(revenue(d), assets(d)), I(0))
o2d(d)  == IfPos(debt(d),    PyDiv(ocf(d), debt(d)), I(0))
d2e(d)  == IfPos(equity(d),  PyDiv(debt(d), equity(d)), I(0))
roe(d)  == IfPos(equity(d),  PyMul(PyDiv(net_inc(d), equity(d)), I(100)), I(0))
roa(d)  == IfPos(assets(d),  PyMul(PyDiv(net_inc(d), assets(d)), I(100)), I(0))
npm(d)  == IfPos(revenue(d), PyMul(PyDiv(net_inc(d), revenue(d)), I(100)), I(0))

wc(d) == PySub(curr_a(d), curr_l(d))

\* mutant of z: the equity/debt term divides without the debt > 0 guard
\* being replaced by 0 (the term is dropped altogether)
z_without_leverage(d) ==
    IfPos(assets(d),
          PyAdd(PyAdd(PyAdd(
              PyDiv(PyMul(F(12, 10), PySub(curr_a(d), curr_l(d))), assets(d)),
              PyDiv(PyMul(F(14, 10), retained(d)), assets(d))),
              PyDiv(PyMul(F(33, 10), ebit(d)), assets(d))),
              PyDiv(PyMul(F(10, 10), revenue(d)), assets(d))),
          F(0, 1))

z(d) ==
    IfPos(assets(d),
          PyAdd(PyAdd(PyAdd(PyAdd(
              PyDiv(PyMul(F(12, 10), wc(d)), assets(d)),
              PyDiv(PyMul(F(14, 10), retained(d)), assets(d))),
              PyDiv(PyMul(F(33, 10), ebit(d)), assets(d))),
              IfPos(debt(d), PyDiv(PyMul(F(6, 10), equity(d)), debt(d)), I(0))),
              PyDiv(PyMul(F(10, 10), revenue(d)), assets(d))),
          F(0, 1))

\* x if not np.isnan(x) else 0
NanToZero(v) == IF v.k = "nan" THEN I(0) ELSE v

\* A dict display: the keys in order of first insertion, the last value of
\* each key
RECURSIVE KeysFrom(_, _)
KeysFrom(pairs, i) ==
    IF i > Len(pairs) THEN << >>
    ELSE IF \A j \in 1..(i - 1) : pairs[j][1] # pairs[i][1]
         THEN <<pairs[i][1]>> \o KeysFrom(pairs, i + 1)
         ELSE KeysFrom(pairs, i + 1)

DictOf(pairs) ==
    LET lastIx(name) == CHOOSE i \in 1..Len(pairs) :
                            pairs[i][1] = name /\
                            \A j \in (i + 1)..Len(pairs) : pairs[j][1] # name
    IN  [ok   |-> TRUE,
         keys |-> KeysFrom(pairs, 1),
         val  |-> [name \in {pairs[i][1] : i \in 1..Len(pairs)} |->
                      pairs[lastIx(name)][2]]]

NoMetrics == [ok |-> FALSE, keys |-> <<>>, val |-> EmptySeries]

MetricPairs(d, now) == <<
    <<"Market_Cap_USD", mkt_cap(d)>>,
    <<"Low", IF Len(d.history) > 0 THEN F(LastOf(d.history).Low, 1) ELSE I(0)>>,
    <<"Volume", IF Len(d.history) > 0
                THEN PyFloat(MeanVals(Column(d.history, "Volume"))) ELSE I(0)>>,
    <<"Daily_Return_%", NanToZero(lat_ret(d.history))>>,
    <<"Price_Range_%", pr_pct(d.history)>>,
    <<"ROA_%", roa(d)>>,
    <<"Equity_Ratio", eq_r(d)>>,
    <<"Asset_Turnover", at(d)>>,
    <<"OCF_to_Debt", o2d(d)>>,
    <<"Altman_Z_Score", z(d)>>,
    <<"Death_Cross", dc(d.history)>>,
    <<"True_Range", tr(d.history)>>,
    <<"RSI_14", rsi14(d.history)>>,
    <<"US_10Y", I(0)>>, <<"Oil_Volatility_20D", I(0)>>,
    <<"Oil_Below_60", I(0)>>, <<"Oil_Below_40", I(0)>>,
    <<"Brent_Change_%", I(0)>>, <<"VIX_Change_%", I(0)>>,
    <<"Very_High_VIX", I(0)>>, <<"Strong_Dollar", I(0)>>,
    <<"SAR_USD", I(0)>>, <<"KWD_USD", I(0)>>,
    <<"QAR_USD_Volatility_20D", I(0)>>, <<"BHD_USD_Volatility_20D", I(0)>>,
    <<"Gulf_Crisis_End", I(0)>>,
    <<"Is_Month_End", IF now.day >= 25 THEN I(1) ELSE I(0)>>,
    <<"Very_High_Governance_Risk", I(0)>>, <<"Has_Controversy", I(0)>>,
    <<"Poor_Governance", I(0)>>,
    <<"Operating Cf_M", PyDiv(ocf(d), F(1000000, 1))>>,
    <<"Free Cf_M", PyDiv(fcf(d), F(1000000, 1))>>,
    <<"Debt_to_Equity", d2e(d)>>,
    <<"ROE_%", roe(d)>>,
    <<"Net_Profit_Margin_%", npm(d)>>,
    <<"Volatility_20", NanToZero(PyFloat(vol_20(d.history)))>>,
    <<"ROC_20", roc20(d.history)>>,
    <<"Egypt_FX_Crisis", I(0)>>, <<"EGP_USD_Change_%", I(0)>>,
    <<"Pandemic_Recession", I(0)>>,
    <<"Environment_Score", I(50)>>, <<"Social_Score", I(50)>>,
    <<"Young_Company", I(0)>>, <<"Low_Institutional_Ownership", I(0)>>,
    <<"Month_x", I(now.month)>> >>

\* mutant of calculate_all_metrics: Gulf_Crisis_End follows the calendar
calculate_all_metrics_dated(d, now) ==
    DictOf([MetricPairs(d, now) EXCEPT
              ![26] = <<"Gulf_Crisis_End", IF now.month >= 6 THEN I(1) ELSE I(0)>>])

\* mutant of calculate_all_metrics: the environment score defaults to 0
calculate_all_metrics_no_esg(d, now) ==
    DictOf([MetricPairs(d, now) EXCEPT ![41] = <<"Environment_Score", I(0)>>])

\* mutant of calculate_all_metrics: the last key misspelt "Month"
calculate_all_metrics_typo(d, now) ==
    DictOf([MetricPairs(d, now) EXCEPT ![45] = <<"Month", I(now.month)>>])

\* The whole body runs under try/except Exception: return None
calculate_all_metrics(d, now) ==
    LET pairs == MetricPairs(d, now)
        locals == {assets(d), equity(d), curr_a(d), curr_l(d), retained(d),
                   debt(d), net_inc(d), revenue(d), ebit(d), ocf(d), capex(d),
                   fcf(d), mkt_cap(d), wc(d)}
    IN  IF (\E v \in locals : Raises(v)) \/
           (\E i \in 1..Len(pairs) : Raises(pairs[i][2]))
        THEN NoMetrics
        ELSE DictOf(pairs)

----------------------------------------------------------------------------
(* make_prediction *)

\* prob >= n/d
ProbGe(p, n, d) == NumLe(F(n, d), p)

\* mutant of Tier: open lower bounds (> for >=)
TierStrict(p) ==
    IF NumLt(F(7, 10), p) THEN "Critical"
    ELSE IF NumLt(F(5, 10), p) THEN "High"
    ELSE IF NumLt(F(3, 10), p) THEN "Medium"
    ELSE "Low"

\* mutant of Tier: the High and Medium labels exchanged
TierMisordered(p) ==
    IF ProbGe(p, 7, 10) THEN "Critical"
    ELSE IF ProbGe(p, 5, 10) THEN "Medium"
    ELSE IF ProbGe(p, 3, 10) THEN "High"
    ELSE "Low"

Tier(p) ==
    IF ProbGe(p, 7, 10) THEN "Critical"
    ELSE IF ProbGe(p, 5, 10) THEN "High"
    ELSE IF ProbGe(p, 3, 10) THEN "Medium"
    ELSE "Low"

\* metrics.get(f, default)
MetricsGet(m, f, default) == IF f \in DOMAIN m.val THEN m.val[f] ELSE default

\* [metrics.get(f, 0) for f in SELECTED_FEATURES]
FeatureRow(m) ==
    [i \in 1..Len(SELECTED_FEATURES) |-> MetricsGet(m, SELECTED_FEATURES[i], I(0))]

----------------------------------------------------------------------------
(* render_explanation *)

GtNum(v, n, d) == (IsNumber(v) /\ v.n * d > n * v.d) \/ v = Inf(1)
LtNum(v, n, d) == (IsNumber(v) /\ v.n * d < n * v.d) \/ v = Inf(-1)

\* f"{x:.2f}", f"{x:.1f}", f"{x:.0f}": x as the nearest multiple of
\* 1/scale; "nan" and "inf" are printed as such
FmtFixed(x, scale) ==
    IF IsNumber(x)
    THEN [k |-> "str",
          n |-> (x.n \div x.d) * scale
                + (2 * (x.n % x.d) * scale + x.d) \div (2 * x.d),
          d |-> scale]
    ELSE [k |-> x.k, n |-> x.n, d |-> 0]

\* the chips of render_explanation: <<class, indicator, printed value,
\* band>>; bearish is the test of the "Bearish Price Signal Active" chip
ChipList(m, bearish) ==
    LET zz  == MetricsGet(m, "Altman_Z_Score", I(0))
        re  == MetricsGet(m, "ROE_%", I(0))
        de  == MetricsGet(m, "Debt_to_Equity", I(0))
        oc  == MetricsGet(m, "Operating Cf_M", I(0))
        rsi == MetricsGet(m, "RSI_14", I(50))
        Chip(class, name, v, scale, band) ==
            << <<class, name, FmtFixed(v, scale), band>> >>
    IN  (IF GtNum(zz, 299, 100)
         THEN Chip("chip-g", "Financial Health Score", zz, 100, "Strong")
         ELSE IF GtNum(zz, 181, 100)
         THEN Chip("chip-a", "Financial Health Score", zz, 100, "Caution")
         ELSE Chip("chip-r", "Financial Health Score", zz, 100, "Weak"))
        \o
        (IF GtNum(re, 15, 1) THEN Chip("chip-g", "Return on Equity", re, 10, "Strong")
         ELSE IF GtNum(re, 5, 1)
         THEN Chip("chip-a", "Return on Equity", re, 10, "Moderate")
         ELSE Chip("chip-r", "Return on Equity", re, 10, "Low"))
        \o
        (IF LtNum(de, 1, 1) THEN Chip("chip-g", "Debt Level", de, 100, "Low")
         ELSE IF LtNum(de, 25, 10) THEN Chip("chip-a", "Debt Level", de, 100, "Moderate")
         ELSE Chip("chip-r", "Debt Level", de, 100, "High"))
        \o
        (IF GtNum(oc, 0, 1) THEN Chip("chip-g", "Cash Generation", oc, 1, "+")
         ELSE Chip("chip-r", "Cash Generation", oc, 1, ""))
        \o
        (IF bearish
         THEN << <<"chip-r", "Bearish Price Signal Active", FmtFixed(NaN, 1), "">> >>
         ELSE << >>)
        \o
        (IF LtNum(rsi, 35, 1) THEN Chip("chip-a", "Price Momentum", rsi, 1, "Low")
         ELSE IF GtNum(rsi, 65, 1) THEN Chip("chip-a", "Price Momentum", rsi, 1, "Elevated")
         ELSE Chip("chip-g", "Price Momentum", rsi, 1, "Stable"))

\* mutant of Chips: the bearish chip is always there
ChipsAlwaysBearish(m) == ChipList(m, TRUE)

\* mutant of Chips: the bearish chip follows the predicted label
ChipsByLabel(m) == ChipList(m, pred = 1)

Chips(m) == ChipList(m, NumEq(MetricsGet(m, "Death_Cross", I(0)), 1, 1))

CriticalTemplate ==
    [card |-> "exp-card-critical",
     hdr  |-> "Critical Risk - Immediate Attention Required",
     acts |-> <<"Review the company's cash position and near-term financial obligations immediately.",
                "Assess whether outstanding debts can be refinanced or renegotiated before maturity.",
                "Examine whether operational cost reductions could restore positive cash generation.",
                "Increase monitoring frequency significantly until the risk picture improves.",
                "Consider whether the current level of exposure to this company is appropriate.">>]

HighTemplate ==
    [card |-> "exp-card-high",
     hdr  |-> "High Risk - Close Monitoring Recommended",
     acts |-> <<"Conduct a detailed cash flow and liquidity review covering the next 12 months.",
                "Identify and review any debt covenants or obligations with approaching deadlines.",
                "Assess operational efficiency - where can costs be reduced or working capital improved?",
                "Monitor the next quarterly results closely for early signs of improvement.",
                "Review whether the current level of exposure is appropriate given the risk profile.">>]

MediumTemplate ==
    [card |-> "exp-card-medium",
     hdr  |-> "Moderate Risk - Worth Monitoring",
     acts |-> <<"Continue monitoring on a monthly basis.",
                "Track the next earnings release for any signs of deterioration.",
                "Stay aware of broader sector conditions - particularly oil prices and regional economic shifts.",
                "No immediate action required, but flag as a company to watch.">>]

LowTemplate ==
    [card |-> "exp-card-ok",
     hdr  |-> "Low Risk - Financially Sound",
     acts |-> <<"No immediate action required - the company is in good financial standing.",
                "Continue with standard periodic monitoring.",
                "This company can serve as a useful benchmark for peer comparisons within the sector.",
                "Keep an eye on broader macro conditions (oil prices, interest rates, regional currency moves).">>]

NoTemplate == [card |-> "", hdr |-> "", acts |-> << >>]

\* mutant of SelectTemplate: a company with debt above 2.5 times its equity
\* gets one more action
SelectTemplateByDebt(pr, p) ==
    LET t == IF pr = 1 /\ ProbGe(p, 7, 10) THEN CriticalTemplate
             ELSE IF pr = 1 /\ ProbGe(p, 5, 10) THEN HighTemplate
             ELSE IF ProbGe(p, 3, 10) THEN MediumTemplate
             ELSE LowTemplate
    IN  IF GtNum(MetricsGet(metrics, "Debt_to_Equity", I(0)), 25, 10)
        THEN [t EXCEPT !.acts = Append(@, "Agree a plan to reduce debt.")]
        ELSE t

\* the if / elif chain of render_explanation on (pred, prob)
SelectTemplate(pr, p) ==
    IF pr = 1 /\ ProbGe(p, 7, 10) THEN CriticalTemplate
    ELSE IF pr = 1 /\ ProbGe(p, 5, 10) THEN HighTemplate
    ELSE IF ProbGe(p, 3, 10) THEN MediumTemplate
    ELSE LowTemplate

----------------------------------------------------------------------------
(* Attribution: labels, categories, category totals, narrative *)

FEATURE_LABELS ==
       ("Market_Cap_USD" :> "Company Size (Market Value)")
    @@ ("Low" :> "Daily Low Price")
    @@ ("Volume" :> "Trading Activity (Volume)")
    @@ ("Daily_Return_%" :> "Daily Price Change")
    @@ ("Price_Range_%" :> "Daily Price Spread")
    @@ ("ROA_%" :> "Return on Assets")
    @@ ("Equity_Ratio" :> "Equity Ratio")
    @@ ("Asset_Turnover" :> "Asset Efficiency")
    @@ ("OCF_to_Debt" :> "Cash Flow vs Debt Coverage")
    @@ ("Altman_Z_Score" :> "Financial Health Score")
    @@ ("Death_Cross" :> "Bearish Price Signal")
    @@ ("True_Range" :> "Daily Price Volatility")
    @@ ("RSI_14" :> "Price Momentum")
    @@ ("US_10Y" :> "US Interest Rate")
    @@ ("Oil_Volatility_20D" :> "Oil Price Stability")
    @@ ("Oil_Below_60" :> "Low Oil Price Indicator")
    @@ ("Oil_Below_40" :> "Very Low Oil Price Indicator")
    @@ ("Brent_Change_%" :> "Oil Price Change")
    @@ ("VIX_Change_%" :> "Market Uncertainty Change")
    @@ ("Very_High_VIX" :> "Extreme Market Uncertainty")
    @@ ("Strong_Dollar" :> "Strong US Dollar")
    @@ ("SAR_USD" :> "Saudi Riyal Rate")
    @@ ("KWD_USD" :> "Kuwaiti Dinar Rate")
    @@ ("QAR_USD_Volatility_20D" :> "Qatar Riyal Stability")
    @@ ("BHD_USD_Volatility_20D" :> "Bahraini Dinar Stability")
    @@ ("Gulf_Crisis_End" :> "Post-Gulf Crisis Period")
    @@ ("Is_Month_End" :> "Month-End Period")
    @@ ("Very_High_Governance_Risk" :> "High Governance Risk")
    @@ ("Has_Controversy" :> "Company Controversy")
    @@ ("Poor_Governance" :> "Governance Concerns")
    @@ ("Operating Cf_M" :> "Operating Cash Flow")
    @@ ("Free Cf_M" :> "Free Cash Flow")
    @@ ("Debt_to_Equity" :> "Debt Relative to Equity")
    @@ ("ROE_%" :> "Return on Equity")
    @@ ("Net_Profit_Margin_%" :> "Net Profit Margin")
    @@ ("Volatility_20" :> "Price Stability (20-Day)")
    @@ ("ROC_20" :> "Price Trend (20-Day)")
    @@ ("Egypt_FX_Crisis" :> "Egypt Currency Pressure")
    @@ ("EGP_USD_Change_%" :> "Egyptian Pound Change")
    @@ ("Pandemic_Recession" :> "Pandemic Period")
    @@ ("Environment_Score" :> "Environmental Score")
    @@ ("Social_Score" :> "Social Score")
    @@ ("Young_Company" :> "Early-Stage Company")
    @@ ("Low_Institutional_Ownership" :> "Low Institutional Ownership")
    @@ ("Month_x" :> "Month of Year")

\* FEATURE_LABELS.get(f, f) for f in features
labels(features) ==
    [i \in 1..Len(features) |->
        IF features[i] \in DOMAIN FEATURE_LABELS
        THEN FEATURE_LABELS[features[i]] ELSE features[i]]

\* mutant of FEATURE_CATEGORIES: "ROE_%" is listed under "Market & Price"
\* too, in the place of "RSI_14"
FEATURE_CATEGORIES_overlap == <<
    <<"Financial Health", <<
        "ROA_%", "Equity_Ratio", "Asset_Turnover", "OCF_to_Debt",
        "Altman_Z_Score", "Operating Cf_M", "Free Cf_M", "Debt_to_Equity",
        "ROE_%", "Net_Profit_Margin_%" >> >>,
    <<"Market & Price", <<
        "Market_Cap_USD", "Low", "Volume", "Daily_Return_%",
        "Price_Range_%", "True_Range", "Volatility_20", "ROC_20",
        "Death_Cross", "ROE_%" >> >>,
    <<"Oil & Global Macro", <<
        "Oil_Volatility_20D", "Oil_Below_60", "Oil_Below_40", "Brent_Change_%",
        "US_10Y", "VIX_Change_%", "Very_High_VIX", "Strong_Dollar" >> >>,
    <<"Regional Factors", <<
        "SAR_USD", "KWD_USD", "QAR_USD_Volatility_20D", "BHD_USD_Volatility_20D",
        "Gulf_Crisis_End", "Egypt_FX_Crisis", "EGP_USD_Change_%", "Pandemic_Recession" >> >>,
    <<"Governance & ESG", <<
        "Very_High_Governance_Risk", "Has_Controversy", "Poor_Governance", "Environment_Score",
        "Social_Score", "Young_Company", "Low_Institutional_Ownership" >> >>,
    <<"Timing", <<
        "Is_Month_End", "Month_x" >> >> >>

\* dict of category -> list of features, in the order of the display
FEATURE_CATEGORIES == <<
    <<"Financial Health", <<
        "ROA_%", "Equity_Ratio", "Asset_Turnover", "OCF_to_Debt",
        "Altman_Z_Score", "Operating Cf_M", "Free Cf_M", "Debt_to_Equity",
        "ROE_%", "Net_Profit_Margin_%" >> >>,
    <<"Market & Price", <<
        "Market_Cap_USD", "Low", "Volume", "Daily_Return_%",
        "Price_Range_%", "True_Range", "Volatility_20", "ROC_20",
        "Death_Cross", "RSI_14" >> >>,
    <<"Oil & Global Macro", <<
        "Oil_Volatility_20D", "Oil_Below_60", "Oil_Below_40", "Brent_Change_%",
        "US_10Y", "VIX_Change_%", "Very_High_VIX", "Strong_Dollar" >> >>,
    <<"Regional Factors", <<
        "SAR_USD", "KWD_USD", "QAR_USD_Volatility_20D", "BHD_USD_Volatility_20D",
        "Gulf_Crisis_End", "Egypt_FX_Crisis", "EGP_USD_Change_%", "Pandemic_Recession" >> >>,
    <<"Governance & ESG", <<
        "Very_High_Governance_Risk", "Has_Controversy", "Poor_Governance", "Environment_Score",
        "Social_Score", "Young_Company", "Low_Institutional_Ownership" >> >>,
    <<"Timing", <<
        "Is_Month_End", "Month_x" >> >> >>

\* feat_idx = {f: i for i, f in enumerate(SELECTED_FEATURES)}
InFeatIdx(f) == \E i \in 1..Len(SELECTED_FEATURES) : SELECTED_FEATURES[i] = f

feat_idx(f) ==
    CHOOSE i \in 1..Len(SELECTED_FEATURES) :
        /\ SELECTED_FEATURES[i] = f
        /\ \A j \in (i + 1)..Len(SELECTED_FEATURES) : SELECTED_FEATURES[j] # f

\* mutant of CategoryTotal: every listed feature of the category but its
\* first is summed
CategoryTotalSkipsFirst(vals, flist) ==
    LET picked == SelectSeq(Tail(flist), InFeatIdx)
    IN  PyFloat(SumVals([k \in 1..Len(picked) |-> vals[feat_idx(picked[k])]]))

\* float(np.sum(vals[[feat_idx[f] for f in flist if f in feat_idx]]))
CategoryTotal(vals, flist) ==
    LET picked == SelectSeq(flist, InFeatIdx)
    IN  PyFloat(SumVals([k \in 1..Len(picked) |-> vals[feat_idx(picked[k])]]))

NoCatVals == [keys |-> << >>, val |-> EmptySeries, colours |-> << >>]

\* cat_vals, cats, totals and colours of shap_category_chart
shap_category_chart(vals) ==
    LET d == DictOf([c \in 1..Len(FEATURE_CATEGORIES) |->
                       <<FEATURE_CATEGORIES[c][1],
                         CategoryTotal(vals, FEATURE_CATEGORIES[c][2])>>])
    IN  [keys    |-> d.keys,
         val     |-> d.val,
         colours |-> [k \in 1..Len(d.keys) |->
                        IF GtNum(d.val[d.keys[k]], 0, 1)
                        THEN "#c0392b" ELSE "#27ae60"]]

AbsLe(a, b) == NumLe(PyAbs(a), PyAbs(b))

Support(vals) == { i \in 1..Len(vals) : vals[i].n # 0 }

\* the members of a set of indices of 1..n in increasing order
Ascending(S, n) == SelectSeq([i \in 1..n |-> i], LAMBDA i : i \in S)

\* df["SHAP"].abs().sort_values(ascending=False).index.  sort_values sorts
\* with kind="quicksort", which is not stable: rows of equal absolute
\* contribution come out in any order.  The orders are taken up to the
\* order of the rows of contribution 0 behind the first row, which nothing
\* reads: those rows are kept in increasing index order.
SortedOrders(vals) ==
    LET S     == Support(vals)
        Z     == (1..Len(vals)) \ S
        ranks == { r \in [1..Cardinality(S) -> S] :
                     /\ \A a, b \in 1..Cardinality(S) : r[a] = r[b] => a = b
                     /\ \A a \in 1..(Cardinality(S) - 1) :
                           AbsLe(vals[r[a + 1]], vals[r[a]]) }
        tails == IF S = {}
                 THEN { <<i>> \o Ascending(Z \ {i}, Len(vals)) : i \in Z }
                 ELSE { Ascending(Z, Len(vals)) }
    IN  { r \o t : r \in ranks, t \in tails }

\* seq.head(n)
HeadN(seq, n) == SubSeq(seq, 1, IF Len(seq) < n THEN Len(seq) ELSE n)

RECURSIVE JoinBold(_)
\* ", ".join(f"**{f}**" for f in seq)
JoinBold(seq) ==
    IF Len(seq) = 0 THEN ""
    ELSE IF Len(seq) = 1 THEN "**" \o seq[1] \o "**"
    ELSE "**" \o seq[1] \o "**, " \o JoinBold(Tail(seq))

NoNarrative ==
    [rendered |-> FALSE, order |-> << >>, top_pos |-> << >>, top_neg |-> << >>,
     top_all |-> << >>, pos_text |-> "", neg_text |-> "", top_text |-> "",
     lead |-> ""]

\* mutant of render_shap_narrative: rows with SHAP >= 0 count as positive
render_shap_narrative_with_zeros(vals, order, pr) ==
    LET lab     == labels(SELECTED_FEATURES)
        pos     == HeadN(SelectSeq(order, LAMBDA i : ~LtNum(vals[i], 0, 1)), 3)
        neg     == HeadN(SelectSeq(order, LAMBDA i : LtNum(vals[i], 0, 1)), 3)
        top_pos == [k \in 1..Len(pos) |-> lab[pos[k]]]
        top_neg == [k \in 1..Len(neg) |-> lab[neg[k]]]
        top_all == [k \in 1..Len(HeadN(order, 1)) |-> lab[order[k]]]
    IN  [rendered |-> TRUE, order |-> order,
         top_pos |-> top_pos, top_neg |-> top_neg, top_all |-> top_all,
         pos_text |-> IF top_pos # << >> THEN JoinBold(top_pos)
                      ELSE "no strong positive contributors",
         neg_text |-> IF top_neg # << >> THEN JoinBold(top_neg)
                      ELSE "no strong negative contributors",
         top_text |-> IF top_all # << >> THEN "**" \o top_all[1] \o "**"
                      ELSE "an unknown factor",
         lead |-> IF pr = 1 THEN "distress classification" ELSE "financially healthy"]

\* render_shap_narrative(shap_vals, pred, prob); order is the index of df_abs
render_shap_narrative(vals, order, pr) ==
    LET lab     == labels(SELECTED_FEATURES)
        pos     == HeadN(SelectSeq(order, LAMBDA i : GtNum(vals[i], 0, 1)), 3)
        neg     == HeadN(SelectSeq(order, LAMBDA i : LtNum(vals[i], 0, 1)), 3)
        top_pos == [k \in 1..Len(pos) |-> lab[pos[k]]]
        top_neg == [k \in 1..Len(neg) |-> lab[neg[k]]]
        top_all == [k \in 1..Len(HeadN(order, 1)) |-> lab[order[k]]]
    IN  [rendered |-> TRUE, order |-> order,
         top_pos |-> top_pos, top_neg |-> top_neg, top_all |-> top_all,
         pos_text |-> IF top_pos # << >> THEN JoinBold(top_pos)
                      ELSE "no strong positive contributors",
         neg_text |-> IF top_neg # << >> THEN JoinBold(top_neg)
                      ELSE "no strong negative contributors",
         top_text |-> IF top_all # << >> THEN "**" \o top_all[1] \o "**"
                      ELSE "an unknown factor",
         lead |-> IF pr = 1 THEN "distress classification" ELSE "financially healthy"]

\* isinstance(v, float): Python floats and numpy float64 values
IsFloat(v) == v.k \in {"float", "nan", "inf", "sqrt"}

\* f"{v:.4f}" if isinstance(v, float) else v
ReportValue(v) == IF IsFloat(v) THEN FmtFixed(v, 10000) ELSE v

NoReport == [ok |-> FALSE, Result |-> "", Probability |-> NaN, RiskLevel |-> "",
             values |-> << >>,
             columns |-> << >>]

----------------------------------------------------------------------------
(* Inputs: the snapshots the data source can return, the dates, the        *)
(* outputs of the externally trained model                                 *)

MaxHist == 3
MaxRuns == 2

Fl(n) == F(n, 1)

Part(items, info) == [items |-> items, info |-> info]

AssetsChoices ==
    { Part("Total Assets" :> Fl(1000), EmptySeries),
      Part("Total Assets" :> Fl(0), EmptySeries),
      Part("Total Assets" :> Fl(-1000), EmptySeries),
      Part("Total Assets" :> NaN, EmptySeries),
      Part(EmptySeries, EmptySeries),
      Part(EmptySeries, "totalAssets" :> None),
      Part(EmptySeries, "totalAssets" :> I(2000)) }

EquityChoices ==
    { Part("Total Stockholder Equity" :> Fl(400), EmptySeries),
      Part("Total Stockholder Equity" :> Fl(0), EmptySeries),
      Part("Total Stockholder Equity" :> Fl(-400), EmptySeries),
      Part(EmptySeries, EmptySeries),
      Part(EmptySeries, "totalStockholderEquity" :> None) }

\* info["totalStockholderEquity"] of a company without statements
InfoEquityChoices ==
    { EmptySeries, "totalStockholderEquity" :> I(500),
      "totalStockholderEquity" :> I(-500) }

DebtChoices ==
    { "Total Debt" :> Fl(300),
      "Total Debt" :> NaN,
      EmptySeries,
      ("Total Debt" :> Fl(0)) @@ ("Long Term Debt" :> Fl(200))
                              @@ ("Short Long Term Debt" :> Fl(100)) }

RestOfBalanceSheet ==
    ("Current Assets" :> Fl(500)) @@ ("Current Liabilities" :> Fl(200))
                                  @@ ("Retained Earnings" :> Fl(100))

Statement(items) == [cols |-> 1, items |-> items]
NoColumns == [cols |-> 0, items |-> EmptySeries]

FinChoices ==
    { Statement(("Net Income" :> Fl(50)) @@ ("Total Revenue" :> Fl(900))
                                         @@ ("EBIT" :> Fl(150))),
      Statement(("Net Income" :> Fl(-20)) @@ ("Total Revenue" :> Fl(0))),
      NoColumns }

BaseFin == Statement(("Net Income" :> Fl(50)) @@ ("Total Revenue" :> Fl(900))
                                              @@ ("EBIT" :> Fl(150)))

BaseCf == Statement("Total Cash From Operating Activities" :> Fl(80))

CfChoices ==
    { BaseCf,
      Statement(("Total Cash From Operating Activities" :> Fl(80))
                @@ ("Capital Expenditures" :> Fl(-40))),
      Statement("Total Cash From Operating Activities" :> NaN),
      Statement(("Total Cash From Operating Activities" :> Fl(0))
                @@ ("Capital Expenditures" :> Fl(-40)) @@ ("Free Cash Flow" :> Fl(0))),
      Statement(("Total Cash From Operating Activities" :> Fl(80))
                @@ ("Free Cash Flow" :> NaN)),
      Statement(("Total Cash From Operating Activities" :> Fl(-30))
                @@ ("Free Cash Flow" :> Fl(25))),
      NoColumns }

MarketCapChoices ==
    { EmptySeries, "marketCap" :> None, "marketCap" :> NaN,
      "marketCap" :> I(5000000) }

RowUp   == [Open |-> 10, High |-> 12, Low |-> 9, Close |-> 11, Volume |-> 1000]
RowDown == [Open |-> 11, High |-> 11, Low |-> 8, Close |-> 8,  Volume |-> 3000]

Histories ==
    UNION { [1..n -> {RowUp, RowDown}] : n \in 1..MaxHist }

BaseHistory == <<RowUp, RowDown>>

\* long histories: n rows at one price level with the rows between the
\* cut points (counted from the last row) at the other level
RowLow  == [Open |-> 10, High |-> 11, Low |-> 9,  Close |-> 10, Volume |-> 2000]
RowHigh == [Open |-> 20, High |-> 21, Low |-> 19, Close |-> 20, Volume |-> 1000]

LongLens == {1, 2, 13, 14, 15, 20, 21, 22, 50, 199, 200, 201}
Cuts     == {0, 1, 10, 14, 21, 60}

Stepped(n, ca, cb, first, other) ==
    [i \in 1..n |-> IF i > n - ca /\ i <= n - cb THEN other ELSE first]

\* a row of a trading halt recorded with zero prices
RowHalt == [Open |-> 0, High |-> 0, Low |-> 0, Close |-> 0, Volume |-> 0]

SteppedHistories ==
    { Stepped(n, ca, cb, r[1], r[2]) :
        n \in LongLens, ca \in Cuts, cb \in Cuts,
        r \in {<<RowLow, RowHigh>>, <<RowHigh, RowLow>>} }

\* the same histories with the halt row RocLag rows before the last row
LongHistories ==
    SteppedHistories \cup
    { [h EXCEPT ![Len(h) - RocLag] = RowHalt] :
        h \in { g \in SteppedHistories : Len(g) \in {21, 22} } }

Snapshot(bs, fin, cf, info, hist) ==
    [ok |-> TRUE, balance_sheet |-> bs, financials |-> fin, cash_flow |-> cf,
     info |-> info, history |-> hist]

\* the end-to-end scenario company
BaseSnapshot ==
    Snapshot(Statement(("Total Assets" :> Fl(1000))
                       @@ ("Total Stockholder Equity" :> Fl(400))
                       @@ ("Total Debt" :> Fl(300)) @@ RestOfBalanceSheet),
             BaseFin, BaseCf, EmptySeries, BaseHistory)

Snapshots ==
    { Snapshot(Statement(a.items @@ e.items @@ dbt @@ RestOfBalanceSheet),
               fin, BaseCf, a.info @@ e.info, BaseHistory) :
        a \in AssetsChoices, e \in EquityChoices, dbt \in DebtChoices,
        fin \in FinChoices }
    \cup
    { Snapshot(Statement(("Total Assets" :> Fl(1000))
                         @@ ("Total Stockholder Equity" :> Fl(400))
                         @@ dbt @@ RestOfBalanceSheet),
               BaseFin, cf, cap, BaseHistory) :
        dbt \in DebtChoices, cf \in CfChoices, cap \in MarketCapChoices }
    \cup
    { Snapshot(NoColumns, NoColumns, NoColumns, a.info @@ e @@ cap, h) :
        a \in AssetsChoices, e \in InfoEquityChoices,
        cap \in MarketCapChoices, h \in {BaseHistory} }
    \cup
    { Snapshot(BaseSnapshot.balance_sheet, BaseFin, BaseCf, EmptySeries, h) :
        h \in Histories }

NoData ==
    [ok |-> FALSE, balance_sheet |-> NoColumns, financials |-> NoColumns,
     cash_flow |-> NoColumns, info |-> EmptySeries, history |-> << >>]

Dates == { [day |-> 24, month |-> 2], [day |-> 25, month |-> 12] }
NoDate == [day |-> 0, month |-> 0]

\* predict_proba(Xs)[0, 1]
Probs ==
    { Fl(0), F(29999, 100000), F(3, 10), F(4, 10), F(49999, 100000), F(5, 10),
      F(62, 100), F(69999, 100000), F(7, 10), Fl(1) }

NoProb == NaN

\* explainer of load_model_resources: None when shap.TreeExplainer raises
Explainers == {"none", "tree"}

\* explainer.shap_values(X_scaled)[0]: one contribution per canonical
\* feature, in tenths, non-zero on the probed features only; the last
\* probe takes the contributions -0.1, 0 and 0.1
MaxShap == 2
MaxDownloads == 2

ShapProbes == <<"Market_Cap_USD", "ROA_%", "Equity_Ratio", "Is_Month_End">>

ProbeOf(f) == CHOOSE k \in 1..Len(ShapProbes) : ShapProbes[k] = f

ShapVectors ==
    { [i \in 1..Len(SELECTED_FEATURES) |->
         IF \E k \in 1..Len(ShapProbes) : ShapProbes[k] = SELECTED_FEATURES[i]
         THEN F(a[ProbeOf(SELECTED_FEATURES[i])], 10)
         ELSE F(0, 1)] :
        a \in { b \in [1..Len(ShapProbes) -> (-MaxShap)..MaxShap] :
                  b[Len(ShapProbes)] \in {-1, 0, 1} } }
NoPrev == [prob |-> NoProb, risk |-> "", pred |-> -1, metrics |-> NoMetrics,
           template |-> NoTemplate, chips |-> << >>, data |-> NoData,
           today |-> NoDate]

----------------------------------------------------------------------------
(* Model files: _get_model_file, _download_from_drive, load_model_resources *)

MODEL_FILE == "final_production_model.pkl"
SCALER_FILE == "scaler.pkl"

GDRIVE_FILE_IDS ==
    (MODEL_FILE :> "1tSEO80eYnx70FrPx1rTlYKoHPtjafsUx")
    @@ (SCALER_FILE :> "1CI6vkBkh1oKdg6tGCXT-5fxccbuUcP_l")
    @@ ("fairness_report.json" :> "1OCbRymlXsx1g6U5w0wqHbffLdWU_iipB")

\* the names _get_model_file is asked for, and one that has no entry in
\* GDRIVE_FILE_IDS
FileNames == DOMAIN GDRIVE_FILE_IDS \cup {"model_metadata.json"}

\* GDRIVE_FILE_IDS.get(filename, "")
FileId(filename) ==
    IF filename \in DOMAIN GDRIVE_FILE_IDS THEN GDRIVE_FILE_IDS[filename] ELSE ""

\* not file_id or file_id.startswith("REPLACE_WITH")
NotConfigured(file_id) == file_id = "" \/ file_id \in {"REPLACE_WITH_FILE_ID"}

\* what a file holds once unpickled: an object, a dict with the keys
\* 'final_model', 'best_model' and one other key, or bytes that do not
\* unpickle.  An object or a dict value is "estimator" (it has predict_proba),
\* "no_predict_proba" (an estimator without it), "scaler", "junk" (anything
\* else that is truthy) or "" (None, or the key is missing).
Object(v) ==
    [kind |-> "object", value |-> v, final_model |-> "", best_model |-> "",
     other |-> ""]
Dict(fm, bm, o) ==
    [kind |-> "dict", value |-> "", final_model |-> fm, best_model |-> bm,
     other |-> o]
Corrupt ==
    [kind |-> "corrupt", value |-> "", final_model |-> "", best_model |-> "",
     other |-> ""]
NoContent ==
    [kind |-> "", value |-> "", final_model |-> "", best_model |-> "",
     other |-> ""]

\* a file of the file system: os.path.exists and os.path.getsize
NoFile == [exists |-> FALSE, size |-> 0, content |-> NoContent]
EmptyFile == [exists |-> TRUE, size |-> 0, content |-> NoContent]
File(c) == [exists |-> TRUE, size |-> 1, content |-> c]

\* os.path.exists(p) and os.path.getsize(p) > 0
NonEmpty(f) == f.exists /\ f.size > 0

\* what gdown.download does: it writes the file served (which may be empty),
\* returns without writing, or raises
DownloadOutcomes(served) ==
    { [raised |-> FALSE, written |-> TRUE, file |-> File(c)] : c \in served }
    \cup { [raised |-> FALSE, written |-> TRUE, file |-> EmptyFile],
           [raised |-> FALSE, written |-> FALSE, file |-> NoFile],
           [raised |-> TRUE, written |-> FALSE, file |-> NoFile] }

\* _download_from_drive(file_id, dest_path) with dest_path the cached copy
download_from_drive(dk, filename, o) ==
    LET after == IF o.written
                 THEN [dk EXCEPT ![filename].cached = o.file]
                 ELSE dk
    IN  [ok   |-> ~o.raised /\ NonEmpty(after[filename].cached),
         disk |-> after]

\* mutant of get_model_file: the cache is not consulted
get_model_file_no_cache(dk, filename, o) ==
    IF NonEmpty(dk[filename].local)
    THEN [path |-> "local", disk |-> dk, downloaded |-> FALSE, ok |-> FALSE]
    ELSE IF NotConfigured(FileId(filename))
    THEN [path |-> "None", disk |-> dk, downloaded |-> FALSE, ok |-> FALSE]
    ELSE LET r == download_from_drive(dk, filename, o)
         IN  [path |-> IF r.ok THEN "cached" ELSE "None", disk |-> r.disk,
              downloaded |-> TRUE, ok |-> r.ok]

\* _get_model_file(filename): the path returned ("local", "cached" or
\* "None"), the file system afterwards, whether a download was attempted and
\* whether it succeeded
get_model_file(dk, filename, o) ==
    IF NonEmpty(dk[filename].local)
    THEN [path |-> "local", disk |-> dk, downloaded |-> FALSE, ok |-> FALSE]
    ELSE IF NonEmpty(dk[filename].cached)
    THEN [path |-> "cached", disk |-> dk, downloaded |-> FALSE, ok |-> FALSE]
    ELSE IF NotConfigured(FileId(filename))
    THEN [path |-> "None", disk |-> dk, downloaded |-> FALSE, ok |-> FALSE]
    ELSE LET r == download_from_drive(dk, filename, o)
         IN  [path |-> IF r.ok THEN "cached" ELSE "None", disk |-> r.disk,
              downloaded |-> TRUE, ok |-> r.ok]

\* the outcomes gdown.download can have in a call of _get_model_file: none
\* when the call returns before the download
OutcomesFor(dk, filename, served) ==
    IF \/ NonEmpty(dk[filename].local)
       \/ NonEmpty(dk[filename].cached)
       \/ NotConfigured(FileId(filename))
    THEN {[raised |-> FALSE, written |-> FALSE, file |-> NoFile]}
    ELSE DownloadOutcomes(served)

\* open(path, "rb"): the file a returned path names
FileAt(dk, filename, p) ==
    IF p = "local" THEN dk[filename].local ELSE dk[filename].cached

\* hasattr(v, "predict_proba")
HasPredictProba(v) == v = "estimator"

\* a or b
OrElse(a, b) == IF a # "" THEN a ELSE b

\* next((v for v in raw.values() if hasattr(v, "predict_proba")), None)
FirstEstimator(raw) ==
    IF \E v \in {raw.final_model, raw.best_model, raw.other} : HasPredictProba(v)
    THEN "estimator" ELSE ""

\* the model load_model_resources takes out of the unpickled file; "" when it
\* reports an error
ModelOf(raw) ==
    IF raw.kind = "object" /\ HasPredictProba(raw.value) THEN raw.value
    ELSE IF raw.kind = "dict"
    THEN OrElse(raw.final_model, OrElse(raw.best_model, FirstEstimator(raw)))
    ELSE ""

\* load_model_resources(): the error shown before st.stop ("" when it
\* returns), the model, scaler and explainer returned, the file system
\* afterwards and the calls of _get_model_file it made
load_model_resources(dk, o1, o2, shap_ok) ==
    LET g1  == get_model_file(dk, MODEL_FILE, o1)
        raw == FileAt(g1.disk, MODEL_FILE, g1.path).content
        mdl == ModelOf(raw)
        g2  == get_model_file(g1.disk, SCALER_FILE, o2)
        sc  == FileAt(g2.disk, SCALER_FILE, g2.path).content
        c1  == [filename |-> MODEL_FILE, path |-> g1.path,
                downloaded |-> g1.downloaded, ok |-> g1.ok]
        c2  == [filename |-> SCALER_FILE, path |-> g2.path,
                downloaded |-> g2.downloaded, ok |-> g2.ok]
        Stop(e, dk2, cs) ==
            [error |-> e, model |-> "", scaler |-> "", explainer |-> "none",
             disk |-> dk2, calls |-> cs]
    IN  IF g1.path = "None" THEN Stop("model_not_found", g1.disk, <<c1>>)
        ELSE IF raw.kind = "corrupt"
        THEN Stop("model_unpickle", g1.disk, <<c1>>)
        ELSE IF raw.kind = "dict" /\ mdl = ""
        THEN Stop("dict_without_estimator", g1.disk, <<c1>>)
        ELSE IF raw.kind # "dict" /\ mdl = ""
        THEN Stop("unexpected_model_type", g1.disk, <<c1>>)
        ELSE IF g2.path = "None"
        THEN Stop("scaler_not_found", g2.disk, <<c1, c2>>)
        ELSE IF sc.kind = "corrupt"
        THEN Stop("scaler_unpickle", g2.disk, <<c1, c2>>)
        ELSE [error |-> "", model |-> mdl,
              scaler |-> IF sc.kind = "object" THEN sc.value ELSE "junk",
              explainer |-> IF shap_ok /\ mdl # "junk" THEN "tree" ELSE "none",
              disk |-> g2.disk, calls |-> <<c1, c2>>]

----------------------------------------------------------------------------
(* main: one analysis request *)

\* a request that has not fetched its data yet: the variables of one run of
\* the script
NoRequest ==
    [pc |-> "fetch", data |-> NoData, today |-> NoDate, metrics |-> NoMetrics,
     X |-> << >>, pred |-> -1, prob |-> NoProb, risk |-> "",
     template |-> NoTemplate, chips |-> << >>, shap_vals |-> << >>,
     narrative |-> NoNarrative, cat_vals |-> NoCatVals, notice |-> "",
     report |-> NoReport, error |-> ""]

\* the deployment with both model files next to the app
InstalledDisk ==
    [f \in FileNames |->
        [local  |-> IF f = MODEL_FILE THEN File(Object("estimator"))
                    ELSE IF f = SCALER_FILE THEN File(Object("scaler"))
                    ELSE NoFile,
         cached |-> NoFile]]

NoDownloads == [f \in FileNames |-> 0]

Loaded(E) ==
    /\ explainer \in E
    /\ shap_vals = << >>
    /\ narrative = NoNarrative
    /\ cat_vals = NoCatVals
    /\ notice = ""
    /\ report = NoReport
    /\ pc = "fetch"
    /\ data = NoData
    /\ today = NoDate
    /\ metrics = NoMetrics
    /\ X = << >>
    /\ pred = -1
    /\ prob = NoProb
    /\ risk = ""
    /\ template = NoTemplate
    /\ chips = << >>
    /\ runs = 1
    /\ prev = NoPrev
    /\ disk = InstalledDisk
    /\ downloads = NoDownloads
    /\ fetched = {}
    /\ asked = SCALER_FILE
    /\ path = "local"
    /\ model = "estimator"
    /\ scaler = "scaler"
    /\ error = ""
    /\ waiting = NoRequest

\* the deployment without the base model file: no explainer
Init == Loaded({"none"})

InitDrivers == Loaded(Explainers)

\* data = fetch_company_data(...) returns a snapshot with a non-empty history
Fetch(S) ==
    /\ pc = "fetch"
    /\ \E s \in S : data' = s
    /\ pc' = "calc"
    /\ UNCHANGED <<today, metrics, X, pred, prob, risk, template, chips, runs, prev>>
    /\ UNCHANGED <<explainer, attribution, report, waiting, files, artifacts>>

FetchCompanyData == Fetch(Snapshots)

\* mutant of FetchFails: the run goes on without data
FetchFailsGoesOn ==
    /\ pc = "fetch"
    /\ data' = NoData
    /\ pc' = "calc"
    /\ UNCHANGED <<today, metrics, X, pred, prob, risk, template, chips, runs, prev>>
    /\ UNCHANGED <<explainer, attribution, report, waiting, files, artifacts>>

\* fetch_company_data returns None: st.error("Could not retrieve data for
\* ..."), st.stop
FetchFails ==
    /\ pc = "fetch"
    /\ data' = NoData
    /\ error' = "could_not_retrieve"
    /\ pc' = "stopped"
    /\ UNCHANGED <<today, metrics, X, pred, prob, risk, template, chips, runs, prev>>
    /\ UNCHANGED <<explainer, attribution, report, waiting, files, model, scaler>>

\* metrics = calculate_all_metrics(data); if not metrics: st.error, st.stop
Calculate(D) ==
    /\ pc = "calc"
    /\ \E now \in D :
          /\ today' = now
          /\ metrics' = calculate_all_metrics(data, now)
    /\ pc' = IF metrics'.ok THEN "predict" ELSE "stopped"
    /\ UNCHANGED <<data, X, pred, prob, risk, template, chips, runs, prev>>
    /\ UNCHANGED <<explainer, attribution, report, waiting, files, artifacts>>

CalculateAllMetrics == Calculate(Dates)

\* pred, prob, risk = make_prediction(model, scaler, metrics)
Predict(Labels, P) ==
    /\ pc = "predict"
    /\ HasPredictProba(model)
    /\ X' = FeatureRow(metrics)
    /\ \E pr \in Labels, p \in P :
          /\ pred' = pr
          /\ prob' = p
          /\ risk' = Tier(p)
    /\ pc' = "explain"
    /\ UNCHANGED <<data, today, metrics, template, chips, runs, prev>>
    /\ UNCHANGED <<explainer, attribution, report, waiting, files, artifacts>>

MakePrediction == Predict({0, 1}, Probs)

\* mutant of RenderExplanation: the chips are appended to a list that the
\* requests share
RenderExplanationShared ==
    /\ pc = "explain"
    /\ chips' = waiting.chips \o Chips(metrics)
    /\ template' = SelectTemplate(pred, prob)
    /\ pc' = "drivers"
    /\ UNCHANGED <<data, today, metrics, X, pred, prob, risk, runs, prev>>
    /\ UNCHANGED <<explainer, attribution, report, waiting, files, artifacts>>

\* render_explanation(sel_name, sel_period_label, pred, prob, risk, metrics)
RenderExplanation ==
    /\ pc = "explain"
    /\ chips' = Chips(metrics)
    /\ template' = SelectTemplate(pred, prob)
    /\ pc' = "drivers"
    /\ UNCHANGED <<data, today, metrics, X, pred, prob, risk, runs, prev>>
    /\ UNCHANGED <<explainer, attribution, report, waiting, files, artifacts>>

\* explainer is None: the info card "Detailed factor analysis requires the
\* base XGBoost model file."
DriversUnavailable ==
    /\ pc = "drivers"
    /\ explainer = "none"
    /\ notice' = "unavailable"
    /\ pc' = "report"
    /\ UNCHANGED <<data, today, metrics, X, pred, prob, risk, template, chips,
                   explainer, shap_vals, narrative, cat_vals, report, runs, prev,
                   waiting, files, artifacts>>

\* the try block: shap_values, render_shap_narrative, then the four charts;
\* a chart that raises leaves the narrative on the page and adds the notice
ExplainDrivers(V) ==
    /\ pc = "drivers"
    /\ explainer = "tree"
    /\ \E v \in V :
         /\ shap_vals' = v
         /\ \E order \in SortedOrders(v) :
               narrative' = render_shap_narrative(v, order, pred)
         /\ \E drawn \in BOOLEAN :
               /\ cat_vals' = IF drawn THEN shap_category_chart(v) ELSE NoCatVals
               /\ notice' = IF drawn THEN "" ELSE "failed"
    /\ pc' = "report"
    /\ UNCHANGED <<data, today, metrics, X, pred, prob, risk, template, chips,
                   explainer, report, runs, prev, waiting, files, artifacts>>

ShowDrivers == ExplainDrivers(ShapVectors)

\* mutant of DriversFailed: the exception of shap_values is not caught
DriversFailedStops ==
    /\ pc = "drivers"
    /\ explainer = "tree"
    /\ notice' = "failed"
    /\ pc' = "stopped"
    /\ UNCHANGED <<data, today, metrics, X, pred, prob, risk, template, chips,
                   explainer, shap_vals, narrative, cat_vals, report, runs, prev,
                   waiting, files, artifacts>>

\* explainer.shap_values raises: st.info("Factor analysis could not be
\* generated: ...")
DriversFailed ==
    /\ pc = "drivers"
    /\ explainer = "tree"
    /\ notice' = "failed"
    /\ pc' = "report"
    /\ UNCHANGED <<data, today, metrics, X, pred, prob, risk, template, chips,
                   explainer, shap_vals, narrative, cat_vals, report, runs, prev,
                   waiting, files, artifacts>>

\* report_df and the download button
ExportReport ==
    /\ pc = "report"
    /\ report' = [ok          |-> TRUE,
                  Result      |-> IF pred = 1 THEN "Distressed" ELSE "Healthy",
                  Probability |-> FmtFixed(prob, 10000),
                  RiskLevel   |-> risk,
                  values      |-> [i \in 1..Len(metrics.keys) |->
                                     ReportValue(metrics.val[metrics.keys[i]])],
                  columns     |-> labels(metrics.keys)]
    /\ pc' = "done"
    /\ UNCHANGED <<data, today, metrics, X, pred, prob, risk, template, chips,
                   explainer, attribution, runs, prev, waiting, files, artifacts>>

Next ==
    \/ FetchCompanyData
    \/ FetchFails
    \/ CalculateAllMetrics
    \/ MakePrediction
    \/ RenderExplanation
    \/ DriversUnavailable
    \/ ExportReport

Spec == Init /\ [][Next]_vars

----------------------------------------------------------------------------
(* A session: the script is run again on every click of "Run Analysis";    *)
(* prev records the result of the previous completed analysis              *)

FetchScenario == Fetch({BaseSnapshot})

PredictOnce == Predict({1}, {F(62, 100)})

\* the companies analysed in a session: the scenario company and the same
\* company with no equity line, whose debt ratio and return on equity are 0
SessionSnapshots ==
    { BaseSnapshot,
      Snapshot(Statement(("Total Assets" :> Fl(1000)) @@ ("Total Debt" :> Fl(300))
                         @@ RestOfBalanceSheet),
               BaseFin, BaseCf, EmptySeries, BaseHistory),
      Snapshot(Statement(("Total Assets" :> Fl(1000))
                         @@ ("Total Stockholder Equity" :> Fl(100))
                         @@ ("Total Debt" :> Fl(300)) @@ RestOfBalanceSheet),
               BaseFin, BaseCf, EmptySeries, BaseHistory) }

FetchInSession == Fetch(SessionSnapshots)

CalculateToday == Calculate({[day |-> 24, month |-> 2]})

RunAnalysisAgain ==
    /\ pc \in {"done", "stopped"}
    /\ runs < MaxRuns
    /\ runs' = runs + 1
    /\ prev' = IF pc = "done"
               THEN [prob |-> prob, risk |-> risk, pred |-> pred,
                     metrics |-> metrics, template |-> template, chips |-> chips,
                     data |-> data, today |-> today]
               ELSE prev
    /\ pc' = "fetch"
    /\ data' = NoData
    /\ today' = NoDate
    /\ metrics' = NoMetrics
    /\ X' = << >>
    /\ pred' = -1
    /\ prob' = NoProb
    /\ risk' = ""
    /\ template' = NoTemplate
    /\ chips' = << >>
    /\ shap_vals' = << >>
    /\ narrative' = NoNarrative
    /\ cat_vals' = NoCatVals
    /\ notice' = ""
    /\ report' = NoReport
    /\ error' = ""
    /\ UNCHANGED <<explainer, waiting, files, model, scaler>>

NextSession ==
    \/ FetchInSession
    \/ FetchFails
    \/ CalculateToday
    \/ MakePrediction
    \/ RenderExplanation
    \/ DriversUnavailable
    \/ ExportReport
    \/ RunAnalysisAgain

SpecSession == Init /\ [][NextSession]_vars

----------------------------------------------------------------------------
(* A session whose analyses are run on different days *)

NextDates ==
    \/ FetchInSession
    \/ FetchFails
    \/ CalculateAllMetrics
    \/ PredictOnce
    \/ RenderExplanation
    \/ DriversUnavailable
    \/ ExportReport
    \/ RunAnalysisAgain

SpecDates == Init /\ [][NextDates]_vars

----------------------------------------------------------------------------
(* The analysis of the scenario company over long price histories *)

MarketSnapshots ==
    { Snapshot(BaseSnapshot.balance_sheet, BaseFin, BaseCf, EmptySeries, h) :
        h \in LongHistories }

FetchMarketData == Fetch(MarketSnapshots)


NextMarket ==
    \/ FetchMarketData
    \/ FetchFails
    \/ CalculateAllMetrics
    \/ PredictOnce
    \/ RenderExplanation
    \/ DriversUnavailable
    \/ ExportReport

SpecMarket == Init /\ [][NextMarket]_vars

----------------------------------------------------------------------------
(* The analysis of the scenario company with and without an explainer,     *)
(* over the contribution vectors the explainer can return                  *)

PredictLabel == Predict({0, 1}, {F(62, 100)})

\* the contributions shown for the scenario company
ScenarioShap ==
    { [i \in 1..Len(SELECTED_FEATURES) |-> IF i = 1 THEN F(1, 10) ELSE F(0, 1)] }

ShowScenarioDrivers == ExplainDrivers(ScenarioShap)

NextDrivers ==
    \/ FetchScenario
    \/ FetchFails
    \/ CalculateToday
    \/ PredictLabel
    \/ RenderExplanation
    \/ DriversUnavailable
    \/ ShowDrivers
    \/ DriversFailed
    \/ ExportReport

SpecDrivers == InitDrivers /\ [][NextDrivers]_vars

----------------------------------------------------------------------------
(* The analysis of the scenario company over its cash-flow statements *)

\* a line of a statement; None stands for a line the statement does not have
Line(key, v) == IF v.k = "none" THEN EmptySeries ELSE key :> v

CashFlows ==
    { Statement(Line("Total Cash From Operating Activities", o)
                @@ Line("Capital Expenditures", c)
                @@ Line("Free Cash Flow", f)) :
        o \in {None, NaN, Fl(0), Fl(80000), Fl(-30000)},
        c \in {None, Fl(0), Fl(-40000), Fl(40000)},
        f \in {None, NaN, Fl(0), Fl(25000), Fl(-25000)} }
    \cup {NoColumns}

CashFlowSnapshots ==
    { Snapshot(BaseSnapshot.balance_sheet, BaseFin, cf, EmptySeries, BaseHistory) :
        cf \in CashFlows }

FetchCashFlows == Fetch(CashFlowSnapshots)

NextCash ==
    \/ FetchCashFlows
    \/ FetchFails
    \/ CalculateToday
    \/ PredictOnce
    \/ RenderExplanation
    \/ DriversUnavailable
    \/ ExportReport

SpecCash == Init /\ [][NextCash]_vars

----------------------------------------------------------------------------
(* The analysis of companies on either side of the chip thresholds *)

\* a short history, a fall 60 days ago after 140 days at the high price, a
\* fall on the last day, a rise on the last day, and a small fall followed by
\* a large rise
ChipHistories ==
    { BaseHistory,
      Stepped(200, 60, 0, RowHigh, RowLow),
      Stepped(22, 1, 0, RowHigh, RowLow),
      Stepped(22, 1, 0, RowLow, RowHigh),
      [i \in 1..15 |-> IF i = 14 THEN RowDown ELSE IF i = 15 THEN RowHigh
                                                            ELSE RowLow] }

ChipSnapshots ==
    { Snapshot(Statement(("Total Assets" :> Fl(1000)) @@ e
                         @@ ("Total Debt" :> Fl(300)) @@ RestOfBalanceSheet),
               fin, cf, EmptySeries, h) :
        e \in { EmptySeries, "Total Stockholder Equity" :> Fl(100),
                "Total Stockholder Equity" :> Fl(200),
                "Total Stockholder Equity" :> Fl(400),
                "Total Stockholder Equity" :> Fl(1000) },
        fin \in {BaseFin, NoColumns},
        cf \in { BaseCf,
                 Statement("Total Cash From Operating Activities" :> Fl(-30)),
                 Statement("Total Cash From Operating Activities" :> NaN) },
        h \in ChipHistories }

FetchChipData == Fetch(ChipSnapshots)

NextChips ==
    \/ FetchChipData
    \/ FetchFails
    \/ CalculateToday
    \/ PredictOnce
    \/ RenderExplanation
    \/ DriversUnavailable
    \/ ExportReport

SpecChips == Init /\ [][NextChips]_vars

----------------------------------------------------------------------------
(* Two requests served at once: each browser session runs the script in    *)
(* its own thread, on the model, scaler and explainer that                 *)
(* load_model_resources returned once.  The variables hold the request     *)
(* whose thread is running, waiting the other one.                         *)

Request ==
    [pc |-> pc, data |-> data, today |-> today, metrics |-> metrics, X |-> X,
     pred |-> pred, prob |-> prob, risk |-> risk, template |-> template,
     chips |-> chips, shap_vals |-> shap_vals, narrative |-> narrative,
     cat_vals |-> cat_vals, notice |-> notice, report |-> report,
     error |-> error]

\* the scheduler runs the other thread
Switch ==
    /\ waiting' = Request
    /\ pc' = waiting.pc
    /\ data' = waiting.data
    /\ today' = waiting.today
    /\ metrics' = waiting.metrics
    /\ X' = waiting.X
    /\ pred' = waiting.pred
    /\ prob' = waiting.prob
    /\ risk' = waiting.risk
    /\ template' = waiting.template
    /\ chips' = waiting.chips
    /\ shap_vals' = waiting.shap_vals
    /\ narrative' = waiting.narrative
    /\ cat_vals' = waiting.cat_vals
    /\ notice' = waiting.notice
    /\ report' = waiting.report
    /\ error' = waiting.error
    /\ UNCHANGED <<explainer, runs, prev, files, model, scaler>>

\* the two companies asked for: the scenario company and the one with no
\* equity line
FetchEither ==
    Fetch({ s \in SessionSnapshots :
              s = BaseSnapshot \/
              "Total Stockholder Equity" \notin DOMAIN s.balance_sheet.items })

PredictEither == Predict({0, 1}, {F(20, 100), F(62, 100)})

NextInterleaved ==
    \/ FetchEither
    \/ FetchFails
    \/ CalculateToday
    \/ PredictEither
    \/ RenderExplanation
    \/ DriversUnavailable
    \/ ShowScenarioDrivers
    \/ DriversFailed
    \/ ExportReport
    \/ Switch

SpecInterleaved == InitDrivers /\ [][NextInterleaved]_vars

----------------------------------------------------------------------------
(* The start of the app: load_model_resources on the files it finds, then  *)
(* the analysis of the scenario company                                    *)

\* what the model file can hold
ModelContents ==
    { Object(v) : v \in {"estimator", "no_predict_proba", "junk"} }
    \cup { Dict(fm, bm, o) :
             fm \in {"", "estimator", "no_predict_proba", "junk"},
             bm \in {"", "estimator", "no_predict_proba", "junk"},
             o \in {"", "estimator"} }
    \cup {Corrupt}

ScalerContents == {Object("scaler"), Corrupt}

\* what the Drive file of the model can hold
DriveModels == {Object("estimator"), Dict("no_predict_proba", "", ""), Corrupt}

\* the file systems the app is started on
LoadDisks ==
    { [f \in FileNames |->
          IF f = MODEL_FILE THEN [local |-> ml, cached |-> mc]
          ELSE IF f = SCALER_FILE THEN [local |-> sl, cached |-> NoFile]
          ELSE [local |-> NoFile, cached |-> NoFile]] :
        ml \in {NoFile, EmptyFile} \cup { File(c) : c \in ModelContents },
        mc \in {NoFile, EmptyFile},
        sl \in {NoFile} \cup { File(c) : c \in ScalerContents } }

NotStarted(D) ==
    /\ explainer = "none"
    /\ shap_vals = << >>
    /\ narrative = NoNarrative
    /\ cat_vals = NoCatVals
    /\ notice = ""
    /\ report = NoReport
    /\ data = NoData
    /\ today = NoDate
    /\ metrics = NoMetrics
    /\ X = << >>
    /\ pred = -1
    /\ prob = NoProb
    /\ risk = ""
    /\ template = NoTemplate
    /\ chips = << >>
    /\ runs = 1
    /\ prev = NoPrev
    /\ disk \in D
    /\ downloads = NoDownloads
    /\ fetched = {}
    /\ asked = ""
    /\ path = ""
    /\ model = ""
    /\ scaler = ""
    /\ error = ""
    /\ waiting = NoRequest

InitLoad == pc = "load" /\ NotStarted(LoadDisks)

\* the download attempts a sequence of calls of _get_model_file made for f
Attempts(cs, f) ==
    Cardinality({ i \in 1..Len(cs) : cs[i].filename = f /\ cs[i].downloaded })

\* model, scaler, explainer = load_model_resources()
LoadModelResources ==
    /\ pc = "load"
    /\ \A f \in {MODEL_FILE, SCALER_FILE} : downloads[f] < MaxDownloads
    /\ \E o1 \in OutcomesFor(disk, MODEL_FILE, DriveModels),
          o2 \in OutcomesFor(disk, SCALER_FILE, ScalerContents),
          shap_ok \in BOOLEAN :
          LET r    == load_model_resources(disk, o1, o2, shap_ok)
              last == r.calls[Len(r.calls)]
          IN  /\ disk' = r.disk
              /\ downloads' = [f \in FileNames |->
                                  downloads[f] + Attempts(r.calls, f)]
              /\ fetched' = fetched \cup
                              { r.calls[i].filename :
                                  i \in { j \in 1..Len(r.calls) : r.calls[j].ok } }
              /\ asked' = last.filename
              /\ path' = last.path
              /\ model' = r.model
              /\ scaler' = r.scaler
              /\ error' = r.error
              /\ explainer' = r.explainer
    /\ pc' = IF error' = "" THEN "fetch" ELSE "stopped"
    /\ UNCHANGED <<data, today, metrics, X, pred, prob, risk, template, chips,
                   attribution, report, runs, prev, waiting>>

\* make_prediction with a model that has no predict_proba: the call raises
\* AttributeError, which nothing catches
PredictRaises ==
    /\ pc = "predict"
    /\ ~HasPredictProba(model)
    /\ error' = "AttributeError"
    /\ pc' = "stopped"
    /\ UNCHANGED <<data, today, metrics, X, pred, prob, risk, template, chips,
                   explainer, attribution, report, runs, prev, waiting, files, model,
                   scaler>>

\* st.cache_resource keeps what load_model_resources returned; after st.stop,
\* or in a new server process, the next run of the script calls it again on
\* the files the earlier run left
RestartApp ==
    /\ pc \in {"done", "stopped"}
    /\ runs < MaxRuns
    /\ runs' = runs + 1
    /\ pc' = "load"
    /\ model' = ""
    /\ scaler' = ""
    /\ error' = ""
    /\ explainer' = "none"
    /\ data' = NoData
    /\ today' = NoDate
    /\ metrics' = NoMetrics
    /\ X' = << >>
    /\ pred' = -1
    /\ prob' = NoProb
    /\ risk' = ""
    /\ template' = NoTemplate
    /\ chips' = << >>
    /\ shap_vals' = << >>
    /\ narrative' = NoNarrative
    /\ cat_vals' = NoCatVals
    /\ notice' = ""
    /\ report' = NoReport
    /\ UNCHANGED <<prev, waiting, files>>

NextLoad ==
    \/ LoadModelResources
    \/ FetchScenario
    \/ FetchFails
    \/ CalculateToday
    \/ PredictOnce
    \/ PredictRaises
    \/ RenderExplanation
    \/ DriversUnavailable
    \/ ShowScenarioDrivers
    \/ DriversFailed
    \/ ExportReport
    \/ RestartApp

SpecLoad == InitLoad /\ [][NextLoad]_vars

----------------------------------------------------------------------------
(* Calls of _get_model_file on the file systems it can find *)

FileDisks ==
    { [f \in FileNames |->
          IF f = SCALER_FILE THEN [local |-> sl, cached |-> sc]
          ELSE IF f = "model_metadata.json" THEN [local |-> ul, cached |-> uc]
          ELSE [local |-> NoFile, cached |-> NoFile]] :
        sl \in {NoFile, EmptyFile, File(Object("scaler"))},
        sc \in {NoFile, EmptyFile, File(Object("scaler"))},
        ul \in {NoFile, EmptyFile, File(Object("junk"))},
        uc \in {NoFile, EmptyFile, File(Object("junk"))} }

InitFiles == pc = "files" /\ NotStarted(FileDisks)

\* path = _get_model_file(filename)
GetModelFile ==
    /\ pc = "files"
    /\ \E f \in FileNames :
        \E o \in OutcomesFor(disk, f, {Object("junk")}) :
          LET g == get_model_file(disk, f, o)
          IN  /\ downloads[f] < MaxDownloads
              /\ disk' = g.disk
              /\ downloads' = IF g.downloaded
                              THEN [downloads EXCEPT ![f] = @ + 1]
                              ELSE downloads
              /\ fetched' = IF g.ok THEN fetched \cup {f} ELSE fetched
              /\ asked' = f
              /\ path' = g.path
    /\ UNCHANGED <<pc, data, today, metrics, X, pred, prob, risk, template,
                   chips, explainer, attribution, report, runs, prev,
                   artifacts, waiting>>

NextFiles == GetModelFile

SpecFiles == InitFiles /\ [][NextFiles]_vars

----------------------------------------------------------------------------
(* Properties *)

Predicted == pc \in {"explain", "drivers", "report", "done"}
Explained == pc \in {"drivers", "report", "done"}

\* p >= n/d, p < n/d on the numerator and denominator of a probability
AtLeast(p, n, d) == p.n * d >= n * p.d
Below(p, n, d)   == p.n * d < n * p.d

\* C1: the tier make_prediction returns is Critical iff prob >= 0.7, High iff
\* 0.5 <= prob < 0.7, Medium iff 0.3 <= prob < 0.5 and Low iff prob < 0.3,
\* whatever the label; 0.3 gives Medium, 0.29999 Low, 0.5 High, 0.7 Critical.
C1_TierThresholds ==
    Predicted =>
        /\ (risk = "Critical") <=> AtLeast(prob, 7, 10)
        /\ (risk = "High")     <=> (AtLeast(prob, 5, 10) /\ Below(prob, 7, 10))
        /\ (risk = "Medium")   <=> (AtLeast(prob, 3, 10) /\ Below(prob, 5, 10))
        /\ (risk = "Low")      <=> Below(prob, 3, 10)
        /\ (prob = F(3, 10)) => risk = "Medium"
        /\ (prob = F(29999, 100000)) => risk = "Low"
        /\ (prob = F(5, 10)) => risk = "High"
        /\ (prob = F(7, 10)) => risk = "Critical"

\* C1 witness: a prediction at the boundary 0.3 with label 0 got tier Medium
C1_Witness ==
    Predicted /\ pred = 0 /\ prob = F(3, 10) /\ risk = "Medium"

TierRank(t) ==
    CASE t = "Low" -> 1 [] t = "Medium" -> 2 [] t = "High" -> 3
      [] t = "Critical" -> 4 [] OTHER -> 0

\* C2: tier monotonicity: of two predictions, the one with the smaller
\* probability never gets the strictly higher tier (Low < Medium < High <
\* Critical).  prev is the previous analysis of the session.
C2_TierMonotone ==
    (Predicted /\ prev.risk # "") =>
        /\ NumLt(prev.prob, prob) => TierRank(prev.risk) <= TierRank(risk)
        /\ NumLt(prob, prev.prob) => TierRank(risk) <= TierRank(prev.risk)

\* C2 witness: two analyses with p1 < p2 whose tiers differ
C2_Witness ==
    /\ Predicted /\ prev.risk = "Medium" /\ risk = "High"
    /\ NumLt(prev.prob, prob)

TemplateOfTier(t) ==
    CASE t = "Critical" -> CriticalTemplate [] t = "High" -> HighTemplate
      [] t = "Medium" -> MediumTemplate [] OTHER -> LowTemplate

\* C3: render_explanation selects exactly one of the four tier templates and
\* it is the template of the tier make_prediction assigned to the same
\* probability, for both labels.
C3_TemplateMatchesTier ==
    pc = "done" => template = TemplateOfTier(risk)

Distinct(seq) == \A i, j \in 1..Len(seq) : seq[i] = seq[j] => i = j

\* C4 (as stated): SELECTED_FEATURES has exactly 44 names, all distinct.
\* (read where the list is used: when the row for the scaler has been built)
C4_FortyFourFeatures ==
    Predicted => (Len(SELECTED_FEATURES) = 44 /\ Distinct(SELECTED_FEATURES))

\* C4 (amended): SELECTED_FEATURES has exactly 45 names, all distinct, and
\* the row handed to the scaler has one value per name.
C4_FeatureCount ==
    /\ Len(SELECTED_FEATURES) = 45
    /\ Distinct(SELECTED_FEATURES)
    /\ Predicted => Len(X) = 45

\* C4 witness: a row has been built from the list
C4_Witness == pc = "explain" /\ Len(X) = 45 /\ X[45] = I(12)

\* C5: a returned feature vector has exactly the canonical names in canonical
\* order, and the row make_prediction hands to the scaler has one value per
\* canonical feature in canonical order, 0 standing for an absent feature.
C5_CanonicalOrder ==
    /\ metrics.ok =>
          /\ metrics.keys = SELECTED_FEATURES
          /\ DOMAIN metrics.val = {SELECTED_FEATURES[i] : i \in 1..Len(SELECTED_FEATURES)}
    /\ Predicted =>
          /\ Len(X) = Len(SELECTED_FEATURES)
          /\ \A i \in 1..Len(SELECTED_FEATURES) :
                X[i] = IF SELECTED_FEATURES[i] \in DOMAIN metrics.val
                       THEN metrics.val[SELECTED_FEATURES[i]] ELSE I(0)

\* C5 witness: a vector was returned and its row built; position 10 holds
\* the health score of the scenario company
C5_Witness ==
    /\ Predicted /\ metrics.ok /\ data = BaseSnapshot
    /\ SELECTED_FEATURES[10] = "Altman_Z_Score" /\ X[10] = F(539, 200)

\* C6: with a non-empty price history every value of the returned vector is
\* a finite number, whatever line items are absent or NaN.
C6_AllFinite ==
    (metrics.ok /\ Len(data.history) > 0) =>
        \A f \in DOMAIN metrics.val : IsFinite(metrics.val[f])

\* C7: with a non-empty price history calculate_all_metrics never returns
\* None, so main never stops on the metrics error.
C7_SparsityNeverAborts ==
    (data.ok /\ Len(data.history) > 0 /\ pc # "calc" /\ pc # "fetch") =>
        (metrics.ok /\ pc # "stopped")

Val(f)    == metrics.val[f]
Pos(v)    == IsNumber(v) /\ v.n > 0
NonPos(v) == IsNumber(v) /\ v.n <= 0
IsZero(f) == NumEq(Val(f), 0, 1)
Absent(stmt, key) == stmt.cols = 0 \/ key \notin DOMAIN stmt.items

\* C8: zero-guard: Equity_Ratio, Asset_Turnover and ROA_% are 0 when total
\* assets <= 0 or absent, Debt_to_Equity and ROE_% when equity <= 0 or absent,
\* OCF_to_Debt when debt <= 0 or absent, Net_Profit_Margin_% when revenue <= 0
\* or absent, and Altman_Z_Score is 0 when total assets = 0.
C8_ZeroGuard ==
    metrics.ok =>
        /\ (NonPos(assets(data)) \/
            (Absent(data.balance_sheet, "Total Assets") /\
             "totalAssets" \notin DOMAIN data.info))
             => (IsZero("Equity_Ratio") /\ IsZero("Asset_Turnover") /\
                 IsZero("ROA_%") /\ IsZero("Altman_Z_Score"))
        /\ (NonPos(equity(data)) \/
            (Absent(data.balance_sheet, "Total Stockholder Equity") /\
             "totalStockholderEquity" \notin DOMAIN data.info))
             => (IsZero("Debt_to_Equity") /\ IsZero("ROE_%"))
        /\ (NonPos(debt(data)) \/
            (Absent(data.balance_sheet, "Total Debt") /\
             Absent(data.balance_sheet, "Long Term Debt") /\
             Absent(data.balance_sheet, "Short Long Term Debt")))
             => IsZero("OCF_to_Debt")
        /\ (NonPos(revenue(data)) \/ Absent(data.financials, "Total Revenue"))
             => IsZero("Net_Profit_Margin_%")

\* C8 witness: a vector returned for negative total assets and positive
\* equity, where the unguarded quotient would not be 0
C8_Witness ==
    /\ metrics.ok /\ NonPos(assets(data)) /\ assets(data).n < 0
    /\ Pos(equity(data)) /\ IsZero("Equity_Ratio")

\* v = scale * a / b
IsQuotient(v, a, b, scale) ==
    IsNumber(v) /\ v.n * b.n * a.d = scale * a.n * b.d * v.d

ScenarioStatements ==
    /\ data.balance_sheet = BaseSnapshot.balance_sheet
    /\ data.financials = BaseSnapshot.financials
    /\ data.cash_flow = BaseSnapshot.cash_flow

\* C9: with positive denominators Equity_Ratio = equity/assets, ROA_% =
\* 100*net_income/assets, ROE_% = 100*net_income/equity, OCF_to_Debt =
\* ocf/debt; the scenario company (assets 1000, equity 400, debt 300, net
\* income 50, ocf 80) gets 0.4, 5.0, 12.5 and 80/300, and probability 0.62
\* gets tier High.
C9_Ratios ==
    /\ metrics.ok =>
          /\ (Pos(assets(data)) /\ IsNumber(equity(data)))
                => IsQuotient(Val("Equity_Ratio"), equity(data), assets(data), 1)
          /\ (Pos(assets(data)) /\ IsNumber(net_inc(data)))
                => IsQuotient(Val("ROA_%"), net_inc(data), assets(data), 100)
          /\ (Pos(equity(data)) /\ IsNumber(net_inc(data)))
                => IsQuotient(Val("ROE_%"), net_inc(data), equity(data), 100)
          /\ (Pos(debt(data)) /\ IsNumber(ocf(data)))
                => IsQuotient(Val("OCF_to_Debt"), ocf(data), debt(data), 1)
          /\ ScenarioStatements =>
                /\ NumEq(Val("Equity_Ratio"), 4, 10)
                /\ NumEq(Val("ROA_%"), 5, 1)
                /\ NumEq(Val("ROE_%"), 125, 10)
                /\ NumEq(Val("OCF_to_Debt"), 80, 300)
    /\ (Predicted /\ prob = F(62, 100)) => risk = "High"

\* C9 witness: the scenario company analysed with probability 0.62
C9_Witness ==
    /\ pc = "done" /\ ScenarioStatements /\ prob = F(62, 100) /\ risk = "High"
    /\ NumEq(Val("ROE_%"), 125, 10)

\* the weighted sum of the claim, on the line items of the snapshot
AltmanSum(d) ==
    PyAdd(PyAdd(PyAdd(PyAdd(
        PyDiv(PyMul(F(12, 10), PySub(curr_a(d), curr_l(d))), assets(d)),
        PyDiv(PyMul(F(14, 10), retained(d)), assets(d))),
        PyDiv(PyMul(F(33, 10), ebit(d)), assets(d))),
        IF Pos(debt(d)) THEN PyDiv(PyMul(F(6, 10), equity(d)), debt(d)) ELSE I(0)),
        PyDiv(revenue(d), assets(d)))

\* C10: Altman_Z_Score = 1.2*(current assets - current liabilities)/assets +
\* 1.4*retained/assets + 3.3*EBIT/assets + (0.6*equity/debt if debt > 0 else
\* 0) + revenue/assets when total assets > 0, and 0 when total assets <= 0.
C10_AltmanZ ==
    metrics.ok =>
        /\ Pos(assets(data)) =>
              \/ SameNum(Val("Altman_Z_Score"), AltmanSum(data))
              \/ (Val("Altman_Z_Score").k = "nan" /\ AltmanSum(data).k = "nan")
        /\ NonPos(assets(data)) => IsZero("Altman_Z_Score")

\* C10 witness: positive assets and no debt: the equity/debt term is 0 and
\* the score is 0.36 + 0.14 + 0.495 + 0 + 0.9
C10_Witness ==
    /\ metrics.ok /\ Pos(assets(data)) /\ NonPos(debt(data))
    /\ Pos(equity(data)) /\ NumEq(Val("Altman_Z_Score"), 1895, 1000)

RatioFeatures ==
    { "ROA_%", "Equity_Ratio", "Asset_Turnover", "OCF_to_Debt",
      "Altman_Z_Score", "Operating Cf_M", "Free Cf_M", "Debt_to_Equity",
      "ROE_%", "Net_Profit_Margin_%" }

\* the three statements have zero columns
Degraded ==
    /\ data.ok
    /\ data.balance_sheet.cols = 0
    /\ data.financials.cols = 0
    /\ data.cash_flow.cols = 0

Calculated == pc \notin {"fetch", "calc"}

\* C11: when the three statements have zero columns,
\* calculate_all_metrics returns a full vector whose ten financial-ratio
\* features are 0, for every content of the info mapping.
C11_DegradedAllZero ==
    (Degraded /\ Calculated) =>
        (metrics.ok /\ \A f \in RatioFeatures : IsZero(f))

Hist == data.history

\* no close below the close of the row before, over the last RsiWindow rows
NoFall ==
    \A i \in 2..Len(Hist) :
        i > Len(Hist) - RsiWindow => Hist[i].Close >= Hist[i - 1].Close

\* C12: Volatility_20 is 0 when there are fewer than 20 daily returns, ROC_20
\* is 0 when the history has 20 rows or fewer (or the close 20 rows back is
\* 0), True_Range is 0 with a single row, and RSI_14 is 50 when the 14-period
\* RSI is undefined: fewer than 14 rows, or no loss over the window.
C12_MarketDefaults ==
    metrics.ok =>
        /\ Len(Hist) - 1 < 20 => IsZero("Volatility_20")
        /\ (Len(Hist) <= 20 \/ Hist[Len(Hist) - 20].Close = 0)
              => IsZero("ROC_20")
        /\ Len(Hist) = 1 => IsZero("True_Range")
        /\ (Len(Hist) < 14 \/ NoFall) => NumEq(Val("RSI_14"), 50, 1)

\* C12 witness: 20 rows (19 returns) whose last close is half the first:
\* volatility and rate of change are 0, and with 13 rows the RSI is 50
\* although the close fell inside the window
C12_Witness ==
    /\ metrics.ok /\ Len(Hist) = 20 /\ Hist[1].Close = 20 /\ Hist[20].Close = 10
    /\ IsZero("Volatility_20") /\ IsZero("ROC_20")
    /\ ~NoFall /\ ~NumEq(Val("RSI_14"), 50, 1)

RECURSIVE CloseBetween(_, _, _)
CloseBetween(h, lo, hi) ==
    IF lo > hi THEN 0
    ELSE IF lo = hi THEN h[lo].Close
    ELSE LET mid == (lo + hi) \div 2
         IN  CloseBetween(h, lo, mid) + CloseBetween(h, mid + 1, hi)

\* the sum of the closes of the last k rows
SumClose(h, k) == CloseBetween(h, Len(h) - k + 1, Len(h))

\* C13: Death_Cross is 1 exactly when the 50- and the 200-period moving
\* averages are both defined at the last row and MA50 < MA200 strictly, and
\* 0 otherwise; so it is 0 whenever the history has fewer than 200 rows.
C13_DeathCross ==
    metrics.ok =>
        /\ Val("Death_Cross") \in {I(0), I(1)}
        /\ (Val("Death_Cross") = I(1)) <=>
              /\ Len(Hist) >= 50 /\ Len(Hist) >= 200
              /\ 200 * SumClose(Hist, 50) < 50 * SumClose(Hist, 200)
        /\ Len(Hist) < 200 => Val("Death_Cross") = I(0)

\* C13 witness: 200 rows, the last 60 of them at half the earlier price
C13_Witness ==
    /\ metrics.ok /\ Len(Hist) = 200 /\ Val("Death_Cross") = I(1)
    /\ SumClose(Hist, 50) = 500 /\ SumClose(Hist, 200) = 3400

\* a flat history of 200 rows or more: the two averages are equal
C13_WitnessEqual ==
    /\ metrics.ok /\ Len(Hist) >= 200 /\ Val("Death_Cross") = I(0)
    /\ 200 * SumClose(Hist, 50) = 50 * SumClose(Hist, 200)

Names(seq) == { seq[i] : i \in 1..Len(seq) }

\* the category chart has been drawn
Charted == cat_vals.keys # << >>

\* the places of a feature name in the category lists
PlacesOf(f) ==
    UNION { { <<c, k>> : k \in { j \in 1..Len(FEATURE_CATEGORIES[c][2]) :
                                    FEATURE_CATEGORIES[c][2][j] = f } } :
            c \in 1..Len(FEATURE_CATEGORIES) }

\* C14: FEATURE_CATEGORIES is an exhaustive, non-overlapping partition of the
\* canonical feature list into exactly 6 categories: every name of
\* SELECTED_FEATURES is in exactly one category list, and every name of a
\* category list is a name of SELECTED_FEATURES.
C14_CategoryPartition ==
    Charted =>
        /\ Len(FEATURE_CATEGORIES) = 6
        /\ Distinct([c \in 1..Len(FEATURE_CATEGORIES) |-> FEATURE_CATEGORIES[c][1]])
        /\ \A f \in Names(SELECTED_FEATURES) : Cardinality(PlacesOf(f)) = 1
        /\ \A c \in 1..Len(FEATURE_CATEGORIES) :
              Names(FEATURE_CATEGORIES[c][2]) \subseteq Names(SELECTED_FEATURES)

\* C14 witness: the chart shows the six categories, "Timing" last
C14_Witness ==
    /\ Charted /\ Len(cat_vals.keys) = 6 /\ cat_vals.keys[6] = "Timing"
    /\ cat_vals.keys[1] = "Financial Health"

RECURSIVE ContributionBetween(_, _, _)
\* the sum of the contributions of the canonical features lo..hi whose
\* names are in fs
ContributionBetween(fs, lo, hi) ==
    IF \A i \in lo..hi : shap_vals[i].n = 0 THEN F(0, 1)
    ELSE IF lo = hi
         THEN (IF SELECTED_FEATURES[lo] \in fs
               THEN PyFloat(shap_vals[lo]) ELSE F(0, 1))
    ELSE PyAdd(ContributionBetween(fs, lo, (lo + hi) \div 2),
               ContributionBetween(fs, (lo + hi) \div 2 + 1, hi))

ContributionOf(fs) == ContributionBetween(fs, 1, Len(shap_vals))

\* the sum of the category totals of the chart
SumOfTotals ==
    SumVals([c \in 1..Len(cat_vals.keys) |-> cat_vals.val[cat_vals.keys[c]]])

\* C15: each category total of shap_category_chart is the sum of the
\* contributions of exactly the features of the category, and the six
\* totals add up to the sum of all per-feature contributions.
C15_CategoryTotals ==
    Charted =>
        /\ cat_vals.keys =
              [c \in 1..Len(FEATURE_CATEGORIES) |-> FEATURE_CATEGORIES[c][1]]
        /\ \A c \in 1..Len(FEATURE_CATEGORIES) :
              SameNum(cat_vals.val[FEATURE_CATEGORIES[c][1]],
                      ContributionOf(Names(FEATURE_CATEGORIES[c][2])))
        /\ SameNum(SumOfTotals, ContributionOf(Names(SELECTED_FEATURES)))

\* C15 witness: ROA_% 0.2 and Equity_Ratio 0.1 give "Financial Health" 0.3,
\* Market_Cap_USD -0.2 gives "Market & Price" -0.2, Is_Month_End 0.1 "Timing"
C15_Witness ==
    /\ Charted
    /\ NumEq(cat_vals.val["Financial Health"], 3, 10)
    /\ NumEq(cat_vals.val["Market & Price"], -2, 10)
    /\ NumEq(cat_vals.val["Timing"], 1, 10)
    /\ NumEq(shap_vals[6], 2, 10) /\ NumEq(shap_vals[7], 1, 10)
    /\ cat_vals.colours[1] = "#c0392b" /\ cat_vals.colours[2] = "#27ae60"

\* the canonical index of the feature shown under a label
IndexOfLabel(l) ==
    CHOOSE i \in 1..Len(SELECTED_FEATURES) : FEATURE_LABELS[SELECTED_FEATURES[i]] = l

IndicesOfLabels(seq) == [k \in 1..Len(seq) |-> IndexOfLabel(seq[k])]

Positive == { i \in 1..Len(shap_vals) : shap_vals[i].n > 0 }
Negative == { i \in 1..Len(shap_vals) : shap_vals[i].n < 0 }

Least(a, b) == IF a < b THEN a ELSE b

\* ix lists Least(3, |S|) distinct members of S, each no nearer to 0 than
\* the next, and no member of S left out is farther from 0 than a listed one
TopOf(ix, S) ==
    /\ Len(ix) = Least(3, Cardinality(S))
    /\ Distinct(ix)
    /\ Names(ix) \subseteq S
    /\ \A k \in 1..(Len(ix) - 1) : AbsLe(shap_vals[ix[k + 1]], shap_vals[ix[k]])
    /\ \A i \in S \ Names(ix) : \A k \in 1..Len(ix) :
          AbsLe(shap_vals[i], shap_vals[ix[k]])

\* C16: the top-positive list of render_shap_narrative is the (up to) 3
\* largest strictly positive contributions in descending order, the
\* top-negative list the (up to) 3 most negative, most negative first, the
\* primary driver a feature of largest absolute contribution; a zero
\* contribution is in neither list and an empty list is rendered as "no
\* strong positive / negative contributors".
C16_TopLists ==
    narrative.rendered =>
        /\ TopOf(IndicesOfLabels(narrative.top_pos), Positive)
        /\ TopOf(IndicesOfLabels(narrative.top_neg), Negative)
        /\ Len(narrative.top_all) = 1
        /\ \A i \in 1..Len(shap_vals) :
              AbsLe(shap_vals[i], shap_vals[IndexOfLabel(narrative.top_all[1])])
        /\ \A i \in 1..Len(shap_vals) :
              shap_vals[i].n = 0 =>
                 FEATURE_LABELS[SELECTED_FEATURES[i]] \notin
                     Names(narrative.top_pos) \cup Names(narrative.top_neg)
        /\ (Positive = {}) <=>
              (narrative.pos_text = "no strong positive contributors")
        /\ (Negative = {}) <=>
              (narrative.neg_text = "no strong negative contributors")

\* C16 witness: four positive contributions 0.2, 0.1, 0.2, 0.1 and none
\* negative: three are listed, the two of 0.2 first
C16_Witness ==
    /\ narrative.rendered /\ Cardinality(Positive) = 4 /\ Negative = {}
    /\ Len(narrative.top_pos) = 3
    /\ NumEq(shap_vals[IndexOfLabel(narrative.top_pos[2])], 2, 10)
    /\ NumEq(shap_vals[IndexOfLabel(narrative.top_pos[3])], 1, 10)
    /\ narrative.neg_text = "no strong negative contributors"
    /\ narrative.pos_text # "no strong positive contributors"

\* C17: in the ranking by absolute contribution two features whose absolute
\* contributions are equal are ordered by canonical feature index, so the
\* primary driver and the two lists are determined by the contributions.
C17_StableTies ==
    narrative.rendered =>
        \A a, b \in 1..Len(narrative.order) :
            (a < b /\ AbsLe(shap_vals[narrative.order[a]],
                            shap_vals[narrative.order[b]]))
               => narrative.order[a] < narrative.order[b]

\* C18: explainability is never fatal: with no explainer, or when computing
\* the contributions raises, the verdict, the tier and the tier narrative
\* are rendered, the driver section shows a notice and the analysis goes on
\* to the report export; the driver section is reached only after the tier
\* narrative has been rendered.
C18_ExplainabilityNotFatal ==
    /\ (notice # "" \/ narrative.rendered) =>
          /\ pc \in {"report", "done"}
          /\ template # NoTemplate /\ chips # << >>
          /\ risk \in {"Low", "Medium", "High", "Critical"} /\ pred \in {0, 1}
    /\ pc = "drivers" => (template # NoTemplate /\ notice = "")
    /\ (pc \in {"report", "done"} /\ explainer = "none") =>
          (notice = "unavailable" /\ ~narrative.rendered)
    /\ (pc \in {"report", "done"} /\ ~narrative.rendered) =>
          notice \in {"unavailable", "failed"}
    /\ pc = "report" => ENABLED ExportReport
    /\ pc = "done" => (report.ok /\ report.RiskLevel = risk)

\* C18 witness: the explainer is there, shap_values raised, and the report
\* of the High-tier analysis has been exported
C18_Witness ==
    /\ pc = "done" /\ explainer = "tree" /\ notice = "failed"
    /\ ~narrative.rendered /\ report.ok /\ risk = "High"
    /\ template.card = "exp-card-high"

\* C19: the recommended actions are a fixed ordered list determined by the
\* selected template alone: 4 or 5 entries for each of the four templates,
\* the same for all feature values (prev is the previous analysis of the
\* session) and left alone by the driver section.
C19_ActionsFixed ==
    Explained =>
        /\ template.card \in {"exp-card-critical", "exp-card-high"}
              => Len(template.acts) = 5
        /\ template.card \in {"exp-card-medium", "exp-card-ok"}
              => Len(template.acts) = 4
        /\ Len(template.acts) \in {4, 5}
        /\ prev.template.card = template.card
              => prev.template.acts = template.acts

\* C19 witness: two analyses with different feature values (debt to equity
\* 0.75 and 3) and the same template
C19_Witness ==
    /\ Explained /\ prev.template.card = template.card
    /\ prev.metrics.ok /\ metrics.ok
    /\ NumEq(prev.metrics.val["Debt_to_Equity"], 3, 4)
    /\ NumEq(metrics.val["Debt_to_Equity"], 3, 1)
    /\ prev.template.acts = template.acts

\* C20: for a fixed feature vector render_explanation produces the same list
\* of chips (labels, colour classes, order) for every label and probability.
C20_ChipsIndependent ==
    (Explained /\ prev.metrics.ok /\ prev.metrics = metrics)
        => prev.chips = chips

\* C20 witness: the same feature vector analysed with label 1, probability
\* 0.7 and with label 0, probability 0.29999
C20_Witness ==
    /\ Explained /\ prev.metrics.ok /\ prev.metrics = metrics
    /\ prev.pred = 1 /\ pred = 0
    /\ prev.prob = F(7, 10) /\ prob = F(29999, 100000)
    /\ Len(chips) = 5 /\ prev.chips = chips

\* C21: whenever load_model_resources returns, the model it returns exposes
\* predict_proba, so a model without it is never given to make_prediction.
C21_ModelHasPredictProba ==
    /\ model # "" => HasPredictProba(model)
    /\ pc = "predict" => HasPredictProba(model)

\* the file load_model_resources opens for a name: the copy next to the app,
\* else the cached copy (a download writes the cached copy before it is read)
UsedFile(filename) ==
    IF NonEmpty(disk[filename].local) THEN disk[filename].local
    ELSE disk[filename].cached

IsEstimator(v) == v \in {"estimator", "no_predict_proba"}

\* the configuration errors: a model or scaler file that is not found or does
\* not unpickle, a model pickle that is neither an estimator nor a dict
\* containing one
ConfigError ==
    LET mf == UsedFile(MODEL_FILE)
        sf == UsedFile(SCALER_FILE)
        c  == mf.content
    IN  \/ ~NonEmpty(mf)
        \/ c.kind = "corrupt"
        \/ c.kind = "object" /\ ~IsEstimator(c.value)
        \/ c.kind = "dict" /\ ~\E v \in {c.final_model, c.best_model, c.other} :
                                   IsEstimator(v)
        \/ ~NonEmpty(sf)
        \/ sf.content.kind = "corrupt"

LoadErrors ==
    {"model_not_found", "model_unpickle", "dict_without_estimator",
     "unexpected_model_type", "scaler_not_found", "scaler_unpickle"}

\* C22: on a configuration error load_model_resources shows an error and
\* stops the app: the run extracts no features, predicts nothing and renders
\* no narrative.
C22_ConfigErrorsFatal ==
    (pc # "load" /\ ConfigError) =>
        /\ pc = "stopped"
        /\ error \in LoadErrors
        /\ model = ""
        /\ data = NoData
        /\ metrics = NoMetrics
        /\ pred = -1
        /\ template = NoTemplate
        /\ narrative = NoNarrative

\* C23: when fetch_company_data returns None, main reports that the data
\* could not be retrieved and stops: the run computes no metrics and makes no
\* prediction, nothing more happens in it, and the data is fetched again
\* only for a new request (the step that leaves "fetch" is the one call of
\* fetch_company_data of the run).
StoppedWithoutData ==
    (pc = "stopped" /\ data = NoData) =>
        /\ error \in {"could_not_retrieve"} \cup LoadErrors
        /\ metrics = NoMetrics /\ X = << >> /\ pred = -1 /\ risk = ""
        /\ report = NoReport

OneFetchPerRequest ==
    /\ (pc = "fetch" /\ data' = NoData) =>
           (pc' = "stopped" /\ error' = "could_not_retrieve")
    /\ pc = "fetch" => pc' # "fetch"
    /\ pc' = "fetch" => runs' = runs + 1
    /\ pc = "stopped" => runs' = runs + 1

C23_FetchFailureStops == []StoppedWithoutData /\ [][OneFetchPerRequest]_vars

\* C23 witness: the second request of a session stopped on a failed fetch
C23_Witness ==
    /\ pc = "stopped" /\ data = NoData /\ error = "could_not_retrieve"
    /\ runs = 2 /\ prev.risk # ""

IsFourDecimals(v) == v.k = "str" /\ v.d = 10000

\* C24: in the exported report every feature value is a string with exactly
\* 4 decimal places, next to the result, the probability with 4 decimals and
\* the risk tier.
C24_ReportFourDecimals ==
    report.ok =>
        /\ report.Result = (IF pred = 1 THEN "Distressed" ELSE "Healthy")
        /\ IsFourDecimals(report.Probability)
        /\ report.RiskLevel = risk
        /\ Len(report.values) = Len(SELECTED_FEATURES)
        /\ \A i \in 1..Len(report.values) : IsFourDecimals(report.values[i])

CalendarFeatures == {"Is_Month_End", "Month_x"}

\* C25: two calls of calculate_all_metrics on the same snapshot return the
\* same vector when made at the same date, and vectors that differ at most
\* in Is_Month_End and Month_x when made at different dates.  prev is the
\* previous analysis of the session.
C25_Deterministic ==
    (Predicted /\ prev.metrics.ok /\ prev.data = data) =>
        /\ metrics.ok
        /\ metrics.keys = prev.metrics.keys
        /\ \A f \in DOMAIN metrics.val :
              f \notin CalendarFeatures => metrics.val[f] = prev.metrics.val[f]
        /\ prev.today = today => metrics = prev.metrics

\* C25 witness: the same snapshot analysed on 24 February and on 25 December
C25_Witness ==
    /\ Predicted /\ prev.metrics.ok /\ prev.data = data /\ data = BaseSnapshot
    /\ prev.today # today
    /\ metrics.val["Month_x"] # prev.metrics.val["Month_x"]
    /\ metrics.val["Is_Month_End"] # prev.metrics.val["Is_Month_End"]

\* a call of _get_model_file for the file asked' : what it returns and
\* whether it downloads, given the copies found before the call
CallOfGetModelFile ==
    LET f        == asked'
        local    == NonEmpty(disk[f].local)
        cached   == NonEmpty(disk[f].cached)
        attempts == downloads'[f] - downloads[f]
    IN  /\ local => (path' = "local" /\ attempts = 0 /\ disk' = disk)
        /\ (~local /\ cached) =>
               (path' = "cached" /\ attempts = 0 /\ disk' = disk)
        /\ attempts \in {0, 1}
        /\ attempts = 1 <=> (~local /\ ~cached /\ ~NotConfigured(FileId(f)))
        /\ (~local /\ ~cached /\ NotConfigured(FileId(f))) =>
               (path' = "None" /\ disk' = disk)
        /\ f \in fetched => (path' \in {"local", "cached"} /\ attempts = 0)
        /\ path' = "cached" => NonEmpty(disk'[f].cached)
        /\ \A g \in FileNames \ {f} :
               downloads'[g] = downloads[g] /\ disk'[g] = disk[g]

\* C26: _get_model_file returns the non-empty copy next to the app, else the
\* non-empty cached copy, and attempts a download only when there is neither
\* and a file ID is configured; once a download of a file has succeeded,
\* every later call for it returns a path without downloading; with no
\* configured ID the call returns None without downloading.
C26_DownloadedOnce == [][CallOfGetModelFile]_vars

\* C26 witness: scaler.pkl was downloaded once, and a call for a file with no
\* configured ID and no copy has returned None without a download
C26_Witness ==
    /\ pc = "files"
    /\ fetched = {SCALER_FILE} /\ downloads[SCALER_FILE] = 1
    /\ NonEmpty(disk[SCALER_FILE].cached) /\ ~NonEmpty(disk[SCALER_FILE].local)
    /\ asked = "model_metadata.json" /\ path = "None"
    /\ downloads["model_metadata.json"] = 0

\* the results of a request are those of the same request run alone: the
\* vector of its snapshot and date, the tier of its probability, the chips
\* and template of its vector and prediction, the narrative and chart of its
\* contributions
AsRunAlone(r) ==
    /\ r.pc \in {"predict", "explain", "drivers", "report", "done"} =>
          r.metrics = calculate_all_metrics(r.data, r.today)
    /\ r.pc \in {"explain", "drivers", "report", "done"} =>
          (r.X = FeatureRow(r.metrics) /\ r.risk = Tier(r.prob))
    /\ r.pc \in {"drivers", "report", "done"} =>
          (r.chips = Chips(r.metrics) /\ r.template = SelectTemplate(r.pred, r.prob))
    /\ r.narrative.rendered =>
          \E order \in SortedOrders(r.shap_vals) :
              r.narrative = render_shap_narrative(r.shap_vals, order, r.pred)
    /\ r.cat_vals # NoCatVals => r.cat_vals = shap_category_chart(r.shap_vals)

\* a step is taken by the running request, which leaves the waiting request
\* and its own feature vector as they are, or switches the two requests
StepOfOneRequest ==
    \/ /\ waiting' = waiting
       /\ metrics.ok => metrics' = metrics
       /\ X # << >> => X' = X
    \/ /\ waiting' = Request
       /\ Request' = waiting

\* C27: the pipeline keeps no state shared between requests: no step of a
\* request changes the feature vector it works on or anything of the other
\* request, so each of two interleaved requests gets the vector, tier and
\* narrative it gets when run alone (the waiting request is the running one
\* after the next switch).
C27_NoSharedState == []AsRunAlone(Request) /\ [][StepOfOneRequest]_vars

\* C27 witness: two requests for different companies in flight at once, one
\* at the report with its narrative rendered, the other not yet explained
C27_Witness ==
    /\ pc = "report" /\ narrative.rendered /\ waiting.pc = "explain"
    /\ waiting.data # data /\ waiting.risk = "Low" /\ risk = "High"

\* the macro, regional and governance features that no snapshot provides
ZeroDefaults ==
    { "US_10Y", "Oil_Volatility_20D", "Oil_Below_60", "Oil_Below_40",
      "Brent_Change_%", "VIX_Change_%", "Very_High_VIX", "Strong_Dollar",
      "SAR_USD", "KWD_USD", "QAR_USD_Volatility_20D", "BHD_USD_Volatility_20D",
      "Gulf_Crisis_End", "Egypt_FX_Crisis", "EGP_USD_Change_%",
      "Pandemic_Recession", "Very_High_Governance_Risk", "Has_Controversy",
      "Poor_Governance", "Young_Company", "Low_Institutional_Ownership" }

ScoreDefaults == {"Environment_Score", "Social_Score"}

\* C28: in every vector calculate_all_metrics returns, Environment_Score and
\* Social_Score are 50 and the other macro, regional and governance features
\* are 0.
C28_FixedDefaults ==
    (Calculated /\ metrics.ok) =>
        /\ (ZeroDefaults \cup ScoreDefaults) \subseteq DOMAIN metrics.val
        /\ \A f \in ZeroDefaults : metrics.val[f] = I(0)
        /\ \A f \in ScoreDefaults : metrics.val[f] = I(50)

\* C28 witness: a vector computed on 25 December from statements with zero
\* columns
C28_Witness ==
    /\ Degraded /\ Calculated /\ metrics.ok /\ today.month = 12
    /\ metrics.val["Social_Score"] = I(50) /\ metrics.val["US_10Y"] = I(0)
    /\ metrics.val["Is_Month_End"] = I(1)

\* a line of the latest cash-flow column; None when the statement has no
\* such line
CashLine(key) ==
    IF data.cash_flow.cols > 0 /\ key \in DOMAIN data.cash_flow.items
    THEN data.cash_flow.items[key] ELSE None

\* a line that is there and is not 0
Reported(v) == v # None /\ ~(IsNumber(v) /\ v.n = 0)

\* the free cash flow of the claim
ClaimedFcf ==
    LET line == CashLine("Free Cash Flow")
        o    == CashLine("Total Cash From Operating Activities")
        c    == IF CashLine("Capital Expenditures") = None THEN Fl(0)
                ELSE CashLine("Capital Expenditures")
    IN  IF Reported(line) THEN line
        ELSE IF Reported(o) THEN PySub(o, PyAbs(c))
        ELSE Fl(0)

\* C29: fcf is the reported 'Free Cash Flow' line when it is there and not
\* 0; otherwise ocf - |capex| when ocf is not 0, and 0 when ocf is 0,
\* whatever the capital expenditure.  "Free Cf_M" is fcf / 1e6.
C29_FreeCashFlow ==
    (Calculated /\ metrics.ok) =>
        LET got  == metrics.val["Free Cf_M"]
            want == PyDiv(ClaimedFcf, Fl(1000000))
        IN  SameNum(got, want) \/ (got.k = "nan" /\ want.k = "nan")

\* C29 witness: a reported free cash flow of 0 next to an operating cash flow
\* of 80,000 and investments of 40,000: fcf is 40,000
C29_Witness ==
    /\ Calculated /\ metrics.ok
    /\ CashLine("Free Cash Flow") = Fl(0)
    /\ CashLine("Total Cash From Operating Activities") = Fl(80000)
    /\ CashLine("Capital Expenditures") = Fl(-40000)
    /\ metrics.val["Free Cf_M"] = F(4, 100)

\* the chips of an indicator
ChipsOf(name) == { i \in 1..Len(chips) : chips[i][2] = name }

\* the one chip of an indicator has the given colour class
OneChip(name, class) ==
    /\ Cardinality(ChipsOf(name)) = 1
    /\ \A i \in ChipsOf(name) : chips[i][1] = class

\* the five indicators that always have a chip, each with the class of its
\* thresholds
FiveChipsByThreshold ==
    LET zz  == MetricsGet(metrics, "Altman_Z_Score", I(0))
        re  == MetricsGet(metrics, "ROE_%", I(0))
        de  == MetricsGet(metrics, "Debt_to_Equity", I(0))
        oc  == MetricsGet(metrics, "Operating Cf_M", I(0))
        rsi == MetricsGet(metrics, "RSI_14", I(50))
    IN  /\ OneChip("Financial Health Score",
                   IF GtNum(zz, 299, 100) THEN "chip-g"
                   ELSE IF GtNum(zz, 181, 100) THEN "chip-a" ELSE "chip-r")
        /\ OneChip("Return on Equity",
                   IF GtNum(re, 15, 1) THEN "chip-g"
                   ELSE IF GtNum(re, 5, 1) THEN "chip-a" ELSE "chip-r")
        /\ OneChip("Debt Level",
                   IF LtNum(de, 1, 1) THEN "chip-g"
                   ELSE IF LtNum(de, 25, 10) THEN "chip-a" ELSE "chip-r")
        /\ OneChip("Cash Generation",
                   IF GtNum(oc, 0, 1) THEN "chip-g" ELSE "chip-r")
        /\ OneChip("Price Momentum",
                   IF LtNum(rsi, 35, 1) \/ GtNum(rsi, 65, 1) THEN "chip-a"
                   ELSE "chip-g")

BearishChips == ChipsOf("Bearish Price Signal Active")

\* C30 (as claimed): render_explanation emits exactly one chip for each of
\* the six indicators, the bearish-crossover flag included, each with the
\* colour class of its thresholds.
C30_SixChips ==
    Explained =>
        /\ FiveChipsByThreshold
        /\ Cardinality(BearishChips) = 1
        /\ Len(chips) = 6

\* C30 (amended): render_explanation emits exactly one chip, with the colour
\* class of its thresholds, for each of health score, ROE, debt ratio, cash
\* generation and RSI band, and one more chip, of the risk class, exactly
\* when Death_Cross is 1.
C30_ChipsByThreshold ==
    Explained =>
        /\ FiveChipsByThreshold
        /\ IF NumEq(MetricsGet(metrics, "Death_Cross", I(0)), 1, 1)
           THEN Cardinality(BearishChips) = 1 /\ Len(chips) = 6
                /\ \A i \in BearishChips : chips[i][1] = "chip-r"
           ELSE BearishChips = {} /\ Len(chips) = 5

\* C30 witness: a company without a bearish crossover, with five chips, of
\* which the health score is at caution and the cash generation at risk
C30_Witness ==
    /\ Explained /\ Len(chips) = 5
    /\ metrics.val["Death_Cross"] = I(0)
    /\ OneChip("Return on Equity", "chip-g")
    /\ OneChip("Debt Level", "chip-r")
    /\ OneChip("Cash Generation", "chip-r")
====
